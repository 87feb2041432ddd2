----------------------- MODULE WorkflowRuntimeProofs ------------------------
(***************************************************************************)
(* Proofs about WorkflowRuntime for every set of cases, timers, callers    *)
(* and workers, every number of crashes and every list of definitions      *)
(* defineWorkflow accepts.                                                 *)
(***************************************************************************)
EXTENDS WorkflowRuntime, TLAPS

(***************************************************************************)
(* Type correctness needs to know which callers have a timer in hand and   *)
(* that a timer with a message has a row: a message names a timer that was *)
(* pending when it was sent, and rows are never deleted.                   *)
(***************************************************************************)
HasRow(t) == timer[t].status # "absent"

\* Rows, messages and callers refer to things that exist.
RefsOK ==
  /\ \A t \in Timer : HasRow(t) => timer[t].inst \in Instance
  /\ \A t \in queue \cup batch : HasRow(t)
  /\ \A u \in User : pc[u] \in {"idle", "open"}
  /\ \A c \in Caller : pc[c] = "open" => tx[c].inst \in Instance
  /\ \A c \in Caller : pc[c] = "open" => tx[c].to \in State
  /\ \A c \in Caller : pc[c] = "open" => tx[c].from \in State
  /\ \A c \in Caller : pc[c] = "open" => tx[c].action \in Action
  /\ \A w \in Worker : pc[w] # "idle" => tx[w].src \in Timer /\ HasRow(tx[w].src)

TInv == TypeOK /\ RefsOK

\* The rows a transaction inserts are rows, keep existing ones and belong to it.
LEMMA ScheduledType ==
  ASSUME TypeOK, NEW tm \in [Timer -> TimerRow], NEW actions \in SUBSET Action,
         NEW f \in Allocations(actions), NEW i \in Instance, NEW s \in State, NEW n \in Nat
  PROVE  /\ Scheduled(tm, f, i, s, n) \in [Timer -> TimerRow]
         /\ \A t \in Timer :
              \/ /\ Scheduled(tm, f, i, s, n)[t] = tm[t]
              \/ /\ t \in Free
                 /\ Scheduled(tm, f, i, s, n)[t].status = "pending"
                 /\ Scheduled(tm, f, i, s, n)[t].inst = i
                 /\ Scheduled(tm, f, i, s, n)[t].expected = s
                 /\ Scheduled(tm, f, i, s, n)[t].born = n
<1> DEFINE new == Scheduled(tm, f, i, s, n)
<1>1. f \in [actions -> Free]
  BY DEF Allocations
<1>2. ASSUME NEW t \in Timer
      PROVE  /\ new[t] \in TimerRow
             /\ \/ new[t] = tm[t]
                \/ /\ t \in Free /\ new[t].status = "pending" /\ new[t].inst = i
                   /\ new[t].expected = s /\ new[t].born = n
  <2>1. CASE \E a \in DOMAIN f : f[a] = t
    <3> DEFINE b == CHOOSE a \in DOMAIN f : f[a] = t
    <3>1. b \in DOMAIN f /\ f[b] = t
      BY <2>1
    <3>2. b \in Action /\ t \in Free
      BY <3>1, <1>1
    <3>3. new[t] = [status |-> "pending", inst |-> i, action |-> b,
                    expected |-> s, born |-> n, due |-> FALSE]
      BY <2>1 DEF Scheduled
    <3> HIDE DEF b, new
    <3>4. QED
      BY <3>2, <3>3 DEF TimerRow, TimerStatus
  <2>2. CASE ~ \E a \in DOMAIN f : f[a] = t
    <3>1. new[t] = tm[t]
      BY <2>2 DEF Scheduled
    <3> HIDE DEF new
    <3>2. QED
      BY <3>1
  <2>3. QED
    BY <2>1, <2>2
<1>3. new = [t \in Timer |-> new[t]]
  BY DEF Scheduled
<1> HIDE DEF new
<1>4. new \in [Timer -> TimerRow]
  BY <1>2, <1>3
<1>5. QED
  BY <1>2, <1>4 DEF new

LEMMA SweptType ==
  ASSUME TypeOK, NEW i \in Instance
  PROVE  /\ Swept(timer, i) \in [Timer -> TimerRow]
         /\ \A t \in Timer : /\ Swept(timer, i)[t].inst = timer[t].inst
                             /\ Swept(timer, i)[t].status = "absent" <=> timer[t].status = "absent"
BY DEF Swept, PendingOf, TypeOK, TimerRow, TimerStatus

\* What registration guarantees of a definition, in the form the steps use it.
LEMMA DefFacts ==
  ASSUME NEW v \in Version
  PROVE  /\ Defs[v].initial \in State
         /\ Defs[v].initial \notin Defs[v].terminal
         /\ Defs[v].initSched \in SUBSET Action
         /\ \A tr \in Defs[v].trans :
              /\ tr.from \in State /\ tr.to \in State /\ tr.action \in Action
              /\ tr.sched \in SUBSET Action
              /\ tr.from \notin Defs[v].terminal
<1>1. Defs[v] \in Definition
  BY DefsAssumption
<1>2. WellFormed(Defs[v])
  BY ValidAssumption DEF Valid
<1>3. \A tr \in Defs[v].trans : tr \in TransitionDef
  BY <1>1 DEF Definition
<1>4. QED
  BY <1>1, <1>2, <1>3 DEF Definition, WellFormed, TransitionDef

LEMMA TInvInit == Init => TInv
<1> SUFFICES ASSUME Init PROVE TInv
  OBVIOUS
<1>1. NoRow \in TimerRow /\ NoTx \in Transaction
  BY DEF NoRow, TimerRow, TimerStatus, NoTx, Transaction
<1>2. TypeOK
  BY <1>1, VersionAssumption DEF Init, TypeOK, Version
<1>3. RefsOK
  BY CallerAssumption DEF Init, RefsOK, HasRow, NoRow, Caller
<1>4. QED
  BY <1>2, <1>3 DEF TInv

\* The first half of a transaction preserves the type invariant, whoever runs it.
LEMMA BeginTInv ==
  ASSUME TInv, NEW c \in Caller, NEW i \in Instance, NEW tr \in DefOf(i).trans,
         NEW src, src \in Timer => HasRow(src), c \in User => src = NoTimer,
         c \in Worker => src \in Timer, Begin(c, i, tr, src)
  PROVE  TInv'
<1>1. /\ tr.from \in State /\ tr.to \in State /\ tr.action \in Action
      /\ tr.sched \in SUBSET Action
  BY DefFacts DEF TInv, TypeOK, DefOf
<1>2. state[i] \in State
  BY DEF Begin, Started, TInv, TypeOK
<1> DEFINE new == [inst |-> i, from |-> state[i], to |-> tr.to,
                   action |-> tr.action, sched |-> tr.sched, src |-> src]
<1>3. new \in Transaction
  BY <1>1, <1>2 DEF Transaction, Caller
<1>4. tx' = [tx EXCEPT ![c] = new] /\ pc' = [pc EXCEPT ![c] = "open"]
  BY DEF Begin
<1>5. /\ new.inst \in Instance /\ new.to \in State /\ new.from \in State
      /\ new.action \in Action /\ new.src = src
  BY <1>1, <1>2
<1> HIDE DEF new
<1>6. TypeOK'
  BY <1>3, <1>4 DEF TInv, TypeOK, Begin
<1>7. RefsOK'
  BY <1>4, <1>5, CallerAssumption DEF TInv, TypeOK, RefsOK, HasRow, Begin, Caller
<1>8. QED
  BY <1>6, <1>7 DEF TInv

LEMMA CommitTInv ==
  ASSUME TInv, NEW c \in Caller, Commit(c)
  PROVE  TInv'
<1> DEFINE i == tx[c].inst
           terminal == tx[c].to \in DefOf(i).terminal
           swept == IF terminal THEN Swept(timer, i) ELSE timer
           row == [from |-> tx[c].from, to |-> tx[c].to,
                   action |-> tx[c].action, src |-> tx[c].src]
           rest == [NoTx EXCEPT !.src = tx[c].src]
<1>1. /\ pc[c] = "open" /\ i \in Instance /\ tx[c].to \in State
      /\ tx[c].from \in State /\ tx[c].action \in Action /\ tx[c] \in Transaction
      /\ c \in Worker => tx[c].src \in Timer /\ HasRow(tx[c].src)
  BY DEF TInv, TypeOK, RefsOK, Commit
<1>2. /\ tx[c].sched \in SUBSET Action
      /\ tx[c].src \in Timer \cup {NoTimer}
      /\ row \in HistRow
      /\ rest \in Transaction
      /\ rest.src = tx[c].src
  BY <1>1 DEF Transaction, HistRow, NoTx
<1>3. /\ swept \in [Timer -> TimerRow]
      /\ \A t \in Timer : /\ swept[t].inst = timer[t].inst
                          /\ swept[t].status = "absent" <=> timer[t].status = "absent"
  BY <1>1, SweptType DEF TInv, TypeOK
<1>4. Len(hist[i]) + 1 \in Nat
  BY <1>1 DEF TInv, TypeOK
<1>5. PICK f \in Allocations(tx[c].sched) :
        timer' = Scheduled(swept, f, i, tx[c].to, Len(hist[i]) + 1)
  BY DEF Commit
<1>6. /\ timer' \in [Timer -> TimerRow]
      /\ \A t \in Timer :
           \/ timer'[t] = swept[t]
           \/ t \in Free /\ timer'[t].status = "pending" /\ timer'[t].inst = i
  BY <1>1, <1>2, <1>3, <1>4, <1>5, ScheduledType DEF TInv
<1>7. /\ state' = [state EXCEPT ![i] = tx[c].to]
      /\ done' = [done EXCEPT ![i] = @ \/ terminal]
      /\ hist' = [hist EXCEPT ![i] = Append(@, row)]
      /\ pc' = [pc EXCEPT ![c] = IF c \in Worker THEN "mark" ELSE "idle"]
      /\ tx' = [tx EXCEPT ![c] = rest]
      /\ UNCHANGED <<latest, pinned, batch, queue, crashes>>
  BY DEF Commit
<1>8. hist' \in [Instance -> Seq(HistRow)]
  BY <1>1, <1>2, <1>7 DEF TInv, TypeOK
<1>9. done' \in [Instance -> BOOLEAN]
  BY <1>1, <1>7 DEF TInv, TypeOK
<1> HIDE DEF i, terminal, swept, row, rest
<1>10. TypeOK'
  BY <1>1, <1>2, <1>6, <1>7, <1>8, <1>9 DEF TInv, TypeOK
<1>11. \A t \in Timer : /\ HasRow(t) => HasRow(t)'
                        /\ HasRow(t)' => timer'[t].inst \in Instance
  BY <1>1, <1>3, <1>6 DEF TInv, RefsOK, HasRow, Free
<1>12. RefsOK'
  BY <1>1, <1>2, <1>7, <1>11, CallerAssumption DEF TInv, TypeOK, RefsOK, Caller
<1>13. QED
  BY <1>10, <1>12 DEF TInv

LEMMA WorkerTInv ==
  ASSUME TInv, NEW w \in Worker, WorkerStep(w)
  PROVE  TInv'
<1>1. ASSUME NEW t \in Timer, Deliver(w, t) PROVE TInv'
  <2> DEFINE new == [NoTx EXCEPT !.src = t]
  <2>1. new \in Transaction /\ new.src = t
    BY DEF NoTx, Transaction
  <2>2. pc[w] = "idle" /\ t \in queue /\ pc' = [pc EXCEPT ![w] = "begin"]
        /\ tx' = [tx EXCEPT ![w] = new]
        /\ UNCHANGED <<latest, pinned, state, done, hist, timer, batch, queue, crashes>>
    BY <1>1 DEF Deliver
  <2> HIDE DEF new
  <2>3. TypeOK'
    BY <2>1, <2>2 DEF TInv, TypeOK, Caller
  <2>4. RefsOK'
    BY <2>1, <2>2, CallerAssumption DEF TInv, TypeOK, RefsOK, HasRow, Caller
  <2>5. QED
    BY <2>3, <2>4 DEF TInv
<1>2. CASE WorkerBegin(w)
  <2>1. PICK tr \in TimerTransitions(tx[w].src) :
          Admits(tr.by, "system") /\ Begin(w, timer[tx[w].src].inst, tr, tx[w].src)
    BY <1>2 DEF WorkerBegin
  <2>2. tx[w].src \in Timer /\ HasRow(tx[w].src) /\ timer[tx[w].src].inst \in Instance
    BY <1>2 DEF WorkerBegin, TInv, RefsOK
  <2>3. tr \in DefOf(timer[tx[w].src].inst).trans
    BY <2>1 DEF TimerTransitions, TransitionsFor
  <2>4. QED
    BY <2>1, <2>2, <2>3, BeginTInv, CallerAssumption DEF Caller
<1>3. CASE WorkerRefused(w)
  BY <1>3, CallerAssumption DEF WorkerRefused, TInv, TypeOK, RefsOK, HasRow, Caller
<1>4. CASE Commit(w)
  BY <1>4, CommitTInv DEF Caller
<1>5. CASE Mark(w)
  <2>1. tx[w].src \in Timer /\ timer \in [Timer -> TimerRow]
    BY <1>5 DEF Mark, TInv, TypeOK, RefsOK
  <2>2. /\ timer' \in [Timer -> TimerRow]
        /\ \A t \in Timer : /\ timer'[t].inst = timer[t].inst
                            /\ timer[t].status # "absent" => timer'[t].status # "absent"
                            /\ timer[t].status = "absent" => timer'[t].status = "absent"
    BY <1>5, <2>1 DEF Mark, Executed, TimerRow, TimerStatus
  <2>3. pc' = [pc EXCEPT ![w] = "ack"]
        /\ UNCHANGED <<latest, pinned, state, done, hist, batch, queue, tx, crashes>>
    BY <1>5 DEF Mark
  <2>4. TypeOK'
    BY <2>2, <2>3 DEF TInv, TypeOK, Caller
  <2>5. RefsOK'
    BY <1>5, <2>2, <2>3, CallerAssumption DEF TInv, TypeOK, RefsOK, HasRow, Mark, Caller
  <2>6. QED
    BY <2>4, <2>5 DEF TInv
<1>6. CASE Ack(w)
  <2>1. NoTx \in Transaction
    BY DEF NoTx, Transaction
  <2>2. QED
    BY <1>6, <2>1, CallerAssumption DEF Ack, TInv, TypeOK, RefsOK, HasRow, Caller
<1>7. QED
  BY <1>1, <1>2, <1>3, <1>4, <1>5, <1>6 DEF WorkerStep

\* The scheduler and the administrator touch the rows' status and due date only.
LEMMA TimerTInv ==
  ASSUME TInv,
         \/ \E t \in Timer : BecomeDue(t) \/ CancelTimer(t) \/ RescheduleTimer(t)
         \/ SchedulerSend \/ SchedulerStamp \/ SchedulerRollback
  PROVE  TInv'
<1>1. ASSUME NEW u \in Timer, BecomeDue(u) \/ CancelTimer(u) \/ RescheduleTimer(u)
      PROVE  TInv'
  <2> DEFINE dueNow == [timer[u] EXCEPT !.due = TRUE]
             off    == [timer[u] EXCEPT !.status = "cancelled"]
             later  == [timer[u] EXCEPT !.due = FALSE]
             ok(r)  == r \in TimerRow /\ r.inst = timer[u].inst /\ r.status # "absent"
  <2>1. timer[u].status = "pending" /\ timer \in [Timer -> TimerRow]
    BY <1>1 DEF BecomeDue, CancelTimer, RescheduleTimer, TInv, TypeOK
  <2>2. timer[u] \in TimerRow
    BY <2>1
  <2>3. ok(dueNow) /\ ok(off) /\ ok(later)
    BY <2>1, <2>2 DEF TimerRow, TimerStatus
  <2>4. \/ timer' = [timer EXCEPT ![u] = dueNow]
        \/ timer' = [timer EXCEPT ![u] = off]
        \/ timer' = [timer EXCEPT ![u] = later]
    BY <1>1 DEF BecomeDue, CancelTimer, RescheduleTimer
  <2> HIDE DEF dueNow, off, later
  <2>5. PICK r \in TimerRow : ok(r) /\ timer' = [timer EXCEPT ![u] = r]
    BY <2>3, <2>4
  <2>6. /\ timer' \in [Timer -> TimerRow]
        /\ \A t \in Timer : /\ timer'[t].inst = timer[t].inst
                            /\ timer'[t].status = "absent" <=> timer[t].status = "absent"
    BY <2>1, <2>5
  <2>7. /\ latest' = latest /\ pinned' = pinned /\ state' = state /\ done' = done
        /\ hist' = hist /\ batch' = batch /\ queue' = queue /\ pc' = pc
        /\ tx' = tx /\ crashes' = crashes
    BY <1>1 DEF BecomeDue, CancelTimer, RescheduleTimer
  <2>8. QED
    BY <2>6, <2>7 DEF TInv, TypeOK, RefsOK, HasRow, Caller
<1>2. CASE SchedulerStamp
  <2> DEFINE row(t) == IF t \in batch /\ timer[t].status = "pending"
                         THEN [timer[t] EXCEPT !.status = "enqueued"]
                         ELSE timer[t]
  <2>0. ASSUME NEW t \in Timer
        PROVE  /\ row(t) \in TimerRow /\ row(t).inst = timer[t].inst
               /\ row(t).status = "absent" <=> timer[t].status = "absent"
    <3>1. timer[t] \in TimerRow
      BY DEF TInv, TypeOK
    <3> DEFINE new == [timer[t] EXCEPT !.status = "enqueued"]
    <3>2. /\ new \in TimerRow /\ new.inst = timer[t].inst /\ new.status = "enqueued"
      BY <3>1 DEF TimerRow, TimerStatus
    <3> HIDE DEF new
    <3>3. row(t) = IF t \in batch /\ timer[t].status = "pending" THEN new ELSE timer[t]
      BY DEF new
    <3> HIDE DEF row
    <3>4. QED
      BY <3>1, <3>2, <3>3
  <2>1. /\ timer' \in [Timer -> TimerRow]
        /\ \A t \in Timer : /\ timer'[t].inst = timer[t].inst
                            /\ timer'[t].status = "absent" <=> timer[t].status = "absent"
    <3>1. timer' = [t \in Timer |-> row(t)]
      BY <1>2 DEF SchedulerStamp
    <3> HIDE DEF row
    <3>2. QED
      BY <2>0, <3>1
  <2>2. batch' = {} /\ UNCHANGED <<latest, pinned, state, done, hist, queue, pc, tx, crashes>>
    BY <1>2 DEF SchedulerStamp
  <2>3. QED
    BY <2>1, <2>2 DEF TInv, TypeOK, RefsOK, HasRow, Caller
<1>3. CASE SchedulerSend
  BY <1>3 DEF SchedulerSend, Due, TInv, TypeOK, RefsOK, HasRow, Caller
<1>4. CASE SchedulerRollback
  BY <1>4 DEF SchedulerRollback, TInv, TypeOK, RefsOK, HasRow, Caller
<1>5. QED
  BY <1>1, <1>2, <1>3, <1>4

LEMMA StartTInv ==
  ASSUME TInv, NEW i \in Instance, Start(i)
  PROVE  TInv'
<1>1. latest \in Version /\ timer \in [Timer -> TimerRow]
  BY DEF TInv, TypeOK
<1>2. Defs[latest].initial \in State /\ Defs[latest].initSched \in SUBSET Action
  BY <1>1, DefFacts
<1>3. PICK f \in Allocations(Defs[latest].initSched) :
        timer' = Scheduled(timer, f, i, Defs[latest].initial, 0)
  BY DEF Start
<1>4. /\ timer' \in [Timer -> TimerRow]
      /\ \A t \in Timer :
           \/ timer'[t] = timer[t]
           \/ t \in Free /\ timer'[t].status = "pending" /\ timer'[t].inst = i
  BY <1>1, <1>2, <1>3, ScheduledType DEF TInv
<1>5. TypeOK'
  BY <1>1, <1>2, <1>4 DEF Start, TInv, TypeOK
<1>6. \A t \in Timer : /\ HasRow(t) => HasRow(t)'
                       /\ HasRow(t)' => timer'[t].inst \in Instance
  BY <1>4 DEF TInv, RefsOK, HasRow, Free
<1>7. RefsOK'
  BY <1>6 DEF Start, TInv, TypeOK, RefsOK, Caller
<1>8. QED
  BY <1>5, <1>7 DEF TInv

LEMMA TInvNext == TInv /\ [Next]_vars => TInv'
<1> SUFFICES ASSUME TInv, [Next]_vars PROVE TInv'
  OBVIOUS
<1>1. CASE Deploy
  BY <1>1, VersionAssumption
     DEF Deploy, TInv, TypeOK, RefsOK, HasRow, Version, Caller
<1>2. CASE \E i \in Instance : Start(i)
  BY <1>2, StartTInv
<1>3. ASSUME NEW u \in User, UserBegin(u) \/ Commit(u) PROVE TInv'
  <2>1. CASE UserBegin(u)
    BY <2>1, BeginTInv, CallerAssumption, NullAssumption DEF UserBegin, Caller
  <2>2. QED
    BY <1>3, <2>1, CommitTInv DEF Caller
<1>4. CASE \E w \in Worker : WorkerStep(w)
  BY <1>4, WorkerTInv
<1>5. ASSUME NEW c \in Caller, Crash(c) PROVE TInv'
  <2>1. NoTx \in Transaction
    BY DEF NoTx, Transaction
  <2>2. QED
    BY <1>5, <2>1 DEF Crash, TInv, TypeOK, RefsOK, HasRow, Caller
<1>6. CASE \/ \E t \in Timer : BecomeDue(t) \/ CancelTimer(t) \/ RescheduleTimer(t)
           \/ SchedulerSend \/ SchedulerStamp \/ SchedulerRollback
  BY <1>6, TimerTInv
<1>7. CASE UNCHANGED vars
  BY <1>7 DEF vars, TInv, TypeOK, RefsOK, HasRow, Caller
<1>8. QED
  BY <1>1, <1>2, <1>3, <1>4, <1>5, <1>6, <1>7 DEF Next

LEMMA TInvInvariant == Spec => []TInv
  BY TInvInit, TInvNext, PTL DEF Spec

\* Every reachable state of the runtime, for any parameters, is well typed.
THEOREM TypeCorrect == Spec => []TypeOK
<1>1. TInv => TypeOK
  BY DEF TInv
<1>2. QED
  BY <1>1, TInvInvariant, PTL
-----------------------------------------------------------------------------
(***************************************************************************)
(* The case invariant.  HistoryIsPath is not inductive by itself: a commit *)
(* appends what the transaction read when it began.  What makes the append *)
(* fit is that the row lock kept the state still in between (OpenOK), and  *)
(* that no second transaction holds the same row (OneOpen).                *)
(***************************************************************************)
Taken(i, from, to, action) ==
  \E tr \in DefOf(i).trans : tr.from = from /\ tr.to = to /\ tr.action = action

\* What a transaction read about its case is still so.
OpenOK ==
  \A c \in Caller : pc[c] = "open" =>
    /\ Started(tx[c].inst) /\ ~done[tx[c].inst]
    /\ tx[c].from = state[tx[c].inst]
    /\ Taken(tx[c].inst, tx[c].from, tx[c].to, tx[c].action)

\* One transaction at a time holds a case's row.
OneOpen ==
  \A c, d \in Caller :
    (pc[c] = "open" /\ pc[d] = "open" /\ tx[c].inst = tx[d].inst) => c = d

\* A case is completed exactly when it stands in a terminal state.
DoneOK == \A i \in Instance : done[i] <=> (Started(i) /\ state[i] \in DefOf(i).terminal)

\* A case that has not started has no history.
FreshOK == \A i \in Instance : ~Started(i) => hist[i] = <<>>

Before(i, k) == IF k = 1 THEN DefOf(i).initial ELSE hist[i][k - 1].to

PathOf(i) ==
  /\ state[i] = Before(i, Len(hist[i]) + 1)
  /\ \A k \in 1 .. Len(hist[i]) :
       /\ hist[i][k].from = Before(i, k)
       /\ Taken(i, hist[i][k].from, hist[i][k].to, hist[i][k].action)

PathOK == \A i \in Instance : Started(i) => PathOf(i)

CaseInv == OpenOK /\ OneOpen /\ DoneOK /\ FreshOK /\ PathOK

LEMMA PathIsHistory == PathOK <=> HistoryIsPath
BY DEF PathOK, PathOf, HistoryIsPath, Before, Taken

LEMMA CaseInit == Init => CaseInv
BY DEF Init, CaseInv, OpenOK, OneOpen, DoneOK, FreshOK, PathOK, Started

\* A step that leaves the cases alone and opens no transaction.
LEMMA CaseStutter ==
  ASSUME CaseInv, UNCHANGED <<pinned, state, done, hist>>,
         \A c \in Caller : pc'[c] = "open" => pc[c] = "open" /\ tx'[c] = tx[c]
  PROVE  CaseInv'
BY DEF CaseInv, OpenOK, OneOpen, DoneOK, FreshOK, PathOK, PathOf, Before, Taken, Started, DefOf

LEMMA CaseBegin ==
  ASSUME TInv, CaseInv, NEW c \in Caller, NEW i \in Instance, NEW tr \in DefOf(i).trans,
         NEW src, Begin(c, i, tr, src)
  PROVE  CaseInv'
<1> DEFINE new == [inst |-> i, from |-> state[i], to |-> tr.to,
                   action |-> tr.action, sched |-> tr.sched, src |-> src]
<1>1. /\ UNCHANGED <<pinned, state, done, hist>>
      /\ tx' = [tx EXCEPT ![c] = new] /\ pc' = [pc EXCEPT ![c] = "open"]
      /\ Started(i) /\ ~Locked(i) /\ tr.from = state[i]
  BY DEF Begin, TransitionsFor
<1>2. /\ new.inst = i /\ new.from = state[i] /\ new.to = tr.to /\ new.action = tr.action
  OBVIOUS
<1>3. ~done[i]
  <2>1. tr.from \notin DefOf(i).terminal
    BY DefFacts DEF TInv, TypeOK, DefOf
  <2>2. QED
    BY <1>1, <2>1 DEF CaseInv, DoneOK
<1>4. tx \in [Caller -> Transaction] /\ DOMAIN pc = Caller
  BY DEF TInv, TypeOK
<1> HIDE DEF new
<1>5. OpenOK'
  BY <1>1, <1>2, <1>3, <1>4 DEF CaseInv, OpenOK, Started, Taken, DefOf
<1>6. OneOpen'
  BY <1>1, <1>2, <1>4 DEF CaseInv, OneOpen, Locked
<1>7. DoneOK' /\ FreshOK' /\ PathOK'
  BY <1>1 DEF CaseInv, DoneOK, FreshOK, PathOK, PathOf, Before, Taken, Started, DefOf
<1>8. QED
  BY <1>5, <1>6, <1>7 DEF CaseInv

\* What a commit does to the case it moves, given the case invariant.
LEMMA CommitFacts ==
  ASSUME TInv, CaseInv, NEW c \in Caller, Commit(c)
  PROVE  LET i == tx[c].inst
             row == [from |-> tx[c].from, to |-> tx[c].to,
                     action |-> tx[c].action, src |-> tx[c].src]
         IN /\ pc[c] = "open" /\ i \in Instance
            /\ Started(i) /\ ~done[i] /\ tx[c].from = state[i]
            /\ Taken(i, tx[c].from, tx[c].to, tx[c].action)
            /\ tx[c].to \in State
            /\ state' = [state EXCEPT ![i] = tx[c].to]
            /\ done' = [done EXCEPT ![i] = tx[c].to \in DefOf(i).terminal]
            /\ hist' = [hist EXCEPT ![i] = Append(@, row)]
            /\ pinned' = pinned
            /\ \A d \in Caller : pc'[d] = "open" => d # c /\ pc[d] = "open" /\ tx'[d] = tx[d]
<1> DEFINE i == tx[c].inst
           terminal == tx[c].to \in DefOf(i).terminal
           row == [from |-> tx[c].from, to |-> tx[c].to,
                   action |-> tx[c].action, src |-> tx[c].src]
           rest == [NoTx EXCEPT !.src = tx[c].src]
<1>1. /\ state' = [state EXCEPT ![i] = tx[c].to]
      /\ done' = [done EXCEPT ![i] = @ \/ terminal]
      /\ hist' = [hist EXCEPT ![i] = Append(@, row)]
      /\ pinned' = pinned
      /\ pc' = [pc EXCEPT ![c] = IF c \in Worker THEN "mark" ELSE "idle"]
      /\ tx' = [tx EXCEPT ![c] = rest]
      /\ pc[c] = "open"
  BY DEF Commit
<1> HIDE DEF rest
<1>2. /\ i \in Instance /\ tx[c].to \in State
      /\ Started(i) /\ ~done[i] /\ tx[c].from = state[i]
      /\ Taken(i, tx[c].from, tx[c].to, tx[c].action)
  BY <1>1 DEF TInv, RefsOK, CaseInv, OpenOK
<1>3. done' = [done EXCEPT ![i] = terminal]
  <2>1. (done[i] \/ terminal) = terminal
    BY <1>2
  <2>2. QED
    BY <1>1, <2>1, Zenon
<1>4. ASSUME NEW d \in Caller, pc'[d] = "open"
      PROVE  d # c /\ pc[d] = "open" /\ tx'[d] = tx[d]
  BY <1>1, <1>4 DEF TInv, TypeOK
<1>5. QED
  BY <1>1, <1>2, <1>3, <1>4

LEMMA CaseCommit ==
  ASSUME TInv, CaseInv, NEW c \in Caller, Commit(c)
  PROVE  CaseInv'
<1>0. PICK i \in Instance : i = tx[c].inst
  BY CommitFacts
<1> DEFINE row == [from |-> tx[c].from, to |-> tx[c].to,
                   action |-> tx[c].action, src |-> tx[c].src]
           n == Len(hist[i])
<1>1. /\ pc[c] = "open"
      /\ Started(i) /\ ~done[i] /\ tx[c].from = state[i]
      /\ Taken(i, tx[c].from, tx[c].to, tx[c].action)
      /\ tx[c].to \in State
      /\ state' = [state EXCEPT ![i] = tx[c].to]
      /\ done' = [done EXCEPT ![i] = tx[c].to \in DefOf(i).terminal]
      /\ hist' = [hist EXCEPT ![i] = Append(@, row)]
      /\ pinned' = pinned
      /\ \A d \in Caller : pc'[d] = "open" => d # c /\ pc[d] = "open" /\ tx'[d] = tx[d]
  BY <1>0, CommitFacts
<1>2. /\ row.from = tx[c].from /\ row.to = tx[c].to /\ row.action = tx[c].action
      /\ hist[i] \in Seq(HistRow) /\ row \in HistRow /\ n \in Nat
      /\ state \in [Instance -> State \cup {NoState}]
      /\ done \in [Instance -> BOOLEAN]
      /\ hist \in [Instance -> Seq(HistRow)]
  <2>1. tx[c] \in Transaction
    BY DEF TInv, TypeOK
  <2>2. row \in HistRow
    BY <1>1, <2>1 DEF TInv, RefsOK, HistRow, Transaction
  <2>3. QED
    BY <1>1, <2>2 DEF TInv, TypeOK
<1>3. \A j \in Instance : Started(j)' <=> Started(j)
  BY <1>1, <1>2, NullAssumption DEF Started
<1>4. \A j \in Instance : DefOf(j)' = DefOf(j)
  BY <1>1 DEF DefOf
<1> HIDE DEF row
<1>5. ASSUME NEW d \in Caller, pc'[d] = "open"
      PROVE  pc[d] = "open" /\ tx'[d] = tx[d] /\ tx[d].inst \in Instance /\ tx[d].inst # i
  BY <1>0, <1>1, <1>5 DEF CaseInv, OneOpen, TInv, RefsOK
<1>6. OpenOK'
  <2>1. ASSUME NEW d \in Caller, pc'[d] = "open"
        PROVE  /\ Started(tx[d].inst)' /\ ~done'[tx'[d].inst]
               /\ tx'[d].from = state'[tx'[d].inst]
               /\ Taken(tx[d].inst, tx[d].from, tx[d].to, tx[d].action)'
    <3>1. PICK j \in Instance : j = tx[d].inst /\ j # i /\ tx'[d] = tx[d] /\ pc[d] = "open"
      BY <1>5, <2>1
    <3>2. /\ state'[j] = state[j] /\ done'[j] = done[j]
          /\ DefOf(j)' = DefOf(j) /\ Started(j)' <=> Started(j)
      BY <1>1, <1>2, <1>3, <1>4, <3>1
    <3>3. /\ Started(j) /\ ~done[j] /\ tx[d].from = state[j]
          /\ Taken(j, tx[d].from, tx[d].to, tx[d].action)
      BY <3>1 DEF CaseInv, OpenOK
    <3>4. Taken(j, tx[d].from, tx[d].to, tx[d].action)'
      BY <3>1, <3>2, <3>3 DEF Taken
    <3>5. tx'[d].inst = j
      BY <3>1
    <3> HIDE DEF Taken
    <3>6. QED
      BY <3>1, <3>2, <3>3, <3>4, <3>5 DEF Started
  <2>2. QED
    BY <2>1 DEF OpenOK
<1>7. OneOpen'
  BY <1>5 DEF CaseInv, OneOpen
<1>8. DoneOK'
  BY <1>1, <1>2, <1>3, <1>4 DEF CaseInv, DoneOK
<1>9. FreshOK'
  BY <1>1, <1>2, <1>3 DEF CaseInv, FreshOK
<1>10. PathOK'
  <2>1. hist'[i] = Append(hist[i], row)
    BY <1>1, <1>2
  <2>2. /\ Len(hist'[i]) = n + 1
        /\ hist'[i][n + 1] = row
        /\ \A k \in 1 .. n : hist'[i][k] = hist[i][k]
    BY <1>2, <2>1
  <2>3. \A k \in 1 .. n + 1 : Before(i, k)' = Before(i, k)
    BY <1>2, <1>4, <1>1, <2>2 DEF Before
  <2>4. PathOf(i)
    BY <1>1 DEF CaseInv, PathOK
  <2>5. state'[i] = Before(i, Len(hist[i]) + 1)'
    BY <1>1, <1>2, <2>2 DEF Before
  <2>6. ASSUME NEW k \in 1 .. n + 1
        PROVE  /\ hist'[i][k].from = Before(i, k)
               /\ Taken(i, hist'[i][k].from, hist'[i][k].to, hist'[i][k].action)
    <3>1. CASE k \in 1 .. n
      BY <2>2, <2>4, <3>1 DEF PathOf
    <3>2. CASE k = n + 1
      BY <1>1, <1>2, <2>2, <2>4, <3>2 DEF PathOf
    <3>3. QED
      BY <1>2, <3>1, <3>2
  <2>7. PathOf(i)'
    <3>1. ASSUME NEW k \in 1 .. Len(hist'[i])
          PROVE  /\ hist'[i][k].from = Before(i, k)'
                 /\ Taken(i, hist[i][k].from, hist[i][k].to, hist[i][k].action)'
      <4>1. k \in 1 .. n + 1
        BY <2>2
      <4>2. Before(i, k)' = Before(i, k)
        BY <2>3, <4>1
      <4>3. hist'[i][k].from = Before(i, k)
        BY <2>6, <4>1
      <4>4. Taken(i, hist'[i][k].from, hist'[i][k].to, hist'[i][k].action)
        BY <2>6, <4>1
      <4>5. Taken(i, hist[i][k].from, hist[i][k].to, hist[i][k].action)'
        BY <1>4, <4>4 DEF Taken
      <4>6. QED
        BY <4>2, <4>3, <4>5
    <3>2. QED
      BY <2>5, <3>1 DEF PathOf
  <2>8. ASSUME NEW j \in Instance, j # i, Started(j)'
        PROVE  PathOf(j)'
    <3>1. hist'[j] = hist[j] /\ state'[j] = state[j] /\ DefOf(j)' = DefOf(j)
      BY <1>1, <1>2, <1>4, <2>8
    <3>2. PathOf(j)
      BY <1>3, <2>8 DEF CaseInv, PathOK
    <3>3. QED
      BY <3>1, <3>2 DEF PathOf, Before, Taken
  <2>9. QED
    BY <2>7, <2>8 DEF PathOK
<1>11. QED
  BY <1>6, <1>7, <1>8, <1>9, <1>10 DEF CaseInv

LEMMA CaseStart ==
  ASSUME TInv, CaseInv, NEW i \in Instance, Start(i)
  PROVE  CaseInv'
<1>1. /\ ~Started(i) /\ latest \in Version
      /\ pinned' = [pinned EXCEPT ![i] = latest]
      /\ state' = [state EXCEPT ![i] = Defs[latest].initial]
      /\ UNCHANGED <<done, hist, pc, tx>>
  BY DEF Start, TInv, TypeOK
<1>2. /\ pinned \in [Instance -> Version]
      /\ state \in [Instance -> State \cup {NoState}]
  BY DEF TInv, TypeOK
<1>3. /\ Defs[latest].initial \in State /\ Defs[latest].initial \notin Defs[latest].terminal
  BY <1>1, DefFacts
<1>4. /\ DefOf(i)' = Defs[latest] /\ state'[i] = Defs[latest].initial /\ Started(i)'
  BY <1>1, <1>2, <1>3, NullAssumption DEF DefOf, Started
<1>5. \A j \in Instance \ {i} : /\ DefOf(j)' = DefOf(j) /\ state'[j] = state[j]
                                /\ Started(j)' <=> Started(j)
  BY <1>1, <1>2 DEF DefOf, Started
<1>6. hist[i] = <<>> /\ ~done[i]
  BY <1>1 DEF CaseInv, FreshOK, DoneOK
<1>7. \A c \in Caller : pc[c] = "open" => tx[c].inst \in Instance \ {i}
  BY <1>1 DEF CaseInv, OpenOK, TInv, RefsOK
<1>8. OpenOK'
  BY <1>1, <1>5, <1>7 DEF CaseInv, OpenOK, Taken
<1>9. OneOpen' /\ FreshOK'
  BY <1>1, <1>4, <1>5 DEF CaseInv, OneOpen, FreshOK
<1>10. DoneOK'
  BY <1>1, <1>3, <1>4, <1>5, <1>6 DEF CaseInv, DoneOK
<1>11. PathOf(i)'
  BY <1>1, <1>4, <1>6 DEF PathOf, Before
<1>12. ASSUME NEW j \in Instance \ {i}, Started(j)'
       PROVE  PathOf(j)'
  BY <1>1, <1>5, <1>12 DEF CaseInv, PathOK, PathOf, Before, Taken
<1>13. QED
  BY <1>8, <1>9, <1>10, <1>11, <1>12 DEF CaseInv, PathOK

LEMMA CaseNext == TInv /\ CaseInv /\ [Next]_vars => CaseInv'
<1> SUFFICES ASSUME TInv, CaseInv, [Next]_vars PROVE CaseInv'
  OBVIOUS
<1> USE CaseStutter
<1>1. CASE Deploy
  BY <1>1 DEF Deploy
<1>2. CASE \E i \in Instance : Start(i)
  BY <1>2, CaseStart
<1>3. ASSUME NEW u \in User, UserBegin(u) \/ Commit(u) PROVE CaseInv'
  BY <1>3, CaseBegin, CaseCommit DEF UserBegin, Caller
<1>4. ASSUME NEW w \in Worker, WorkerStep(w) PROVE CaseInv'
  <2>1. CASE Commit(w)
    BY <2>1, CaseCommit DEF Caller
  <2>2. CASE WorkerBegin(w)
    <3>1. tx[w].src \in Timer /\ timer[tx[w].src].inst \in Instance
      BY <2>2 DEF WorkerBegin, TInv, RefsOK, HasRow
    <3>2. QED
      BY <2>2, <3>1, CaseBegin DEF WorkerBegin, TimerTransitions, TransitionsFor, Caller
  <2>3. CASE (\E t \in Timer : Deliver(w, t)) \/ WorkerRefused(w) \/ Mark(w) \/ Ack(w)
    <3>1. /\ UNCHANGED <<pinned, state, done, hist>>
          /\ \A c \in Caller : pc'[c] = "open" => pc[c] = "open" /\ tx'[c] = tx[c]
      BY <2>3 DEF Deliver, WorkerRefused, Mark, Ack, TInv, TypeOK
    <3>2. QED
      BY <3>1
  <2>4. QED
    BY <1>4, <2>1, <2>2, <2>3 DEF WorkerStep
<1>5. CASE \E c \in Caller : Crash(c)
  BY <1>5 DEF Crash, TInv, TypeOK
<1>6. CASE \/ \E t \in Timer : BecomeDue(t) \/ CancelTimer(t) \/ RescheduleTimer(t)
           \/ SchedulerSend \/ SchedulerStamp \/ SchedulerRollback
  <2>1. UNCHANGED <<pinned, state, done, hist, pc, tx>>
    BY <1>6 DEF BecomeDue, CancelTimer, RescheduleTimer,
                SchedulerSend, SchedulerStamp, SchedulerRollback
  <2>2. QED
    BY <2>1
<1>7. CASE UNCHANGED vars
  BY <1>7 DEF vars
<1>8. QED
  BY <1>1, <1>2, <1>3, <1>4, <1>5, <1>6, <1>7 DEF Next

LEMMA CaseInvariant == Spec => [](TInv /\ CaseInv)
<1>1. Init => TInv /\ CaseInv
  BY TInvInit, CaseInit
<1>2. TInv /\ CaseInv /\ [Next]_vars => (TInv /\ CaseInv)'
  BY TInvNext, CaseNext
<1>3. QED
  BY <1>1, <1>2, PTL DEF Spec

\* WF-10 and WF-4: whatever callers race and whatever is deployed meanwhile, the
\* rows of a case are a path of its pinned definition that ends where it stands.
THEOREM HistoryAlwaysPath == Spec => []HistoryIsPath
<1>1. CaseInv => HistoryIsPath
  BY PathIsHistory DEF CaseInv
<1>2. QED
  BY <1>1, CaseInvariant, PTL

\* A case is completed exactly in a terminal state, and from then on nobody
\* holds a transaction that would move it.
THEOREM ClosedAlwaysClosed == Spec => []ClosedCasesStayClosed
<1>1. CaseInv => ClosedCasesStayClosed
  BY DEF CaseInv, DoneOK, OpenOK, ClosedCasesStayClosed
<1>2. QED
  BY <1>1, CaseInvariant, PTL

(***************************************************************************)
(* The runtime implements CaseLifecycle: Start and Commit are the abstract *)
(* Start and Move, every other step is a stutter.                          *)
(***************************************************************************)
CaseVars == <<pinned, state, done>>

LEMMA LifecycleStart ==
  ASSUME TInv, NEW i \in Instance, Start(i)
  PROVE  Lifecycle!Next
<1>1. latest \in 1 .. MaxVersion
  BY DEF TInv, TypeOK, Version
<1>2. Lifecycle!Start(i, latest)
  BY DEF Start, Started, Active, SubjectIsFree, Lifecycle!Start
<1>3. QED
  BY <1>1, <1>2 DEF Lifecycle!Next

LEMMA LifecycleMove ==
  ASSUME TInv, CaseInv, NEW c \in Caller, Commit(c)
  PROVE  Lifecycle!Next
<1> DEFINE i == tx[c].inst
<1>1. /\ i \in Instance /\ ~done[i] /\ tx[c].from = state[i]
      /\ Taken(i, tx[c].from, tx[c].to, tx[c].action)
      /\ state' = [state EXCEPT ![i] = tx[c].to]
      /\ done' = [done EXCEPT ![i] = tx[c].to \in DefOf(i).terminal]
      /\ pinned' = pinned
  BY CommitFacts
<1>2. PICK tr \in DefOf(i).trans : tr.from = state[i] /\ tr.to = tx[c].to
  BY <1>1 DEF Taken
<1>3. Lifecycle!Move(i, tr)
  BY <1>1, <1>2 DEF Lifecycle!Move, DefOf
<1>4. QED
  BY <1>1, <1>2, <1>3 DEF Lifecycle!Next, DefOf

LEMMA LifecycleNext ==
  ASSUME TInv, CaseInv, [Next]_vars
  PROVE  [Lifecycle!Next]_CaseVars
<1>1. CASE \E i \in Instance : Start(i)
  BY <1>1, LifecycleStart
<1>2. CASE \E c \in Caller : Commit(c)
  BY <1>2, LifecycleMove
<1>3. CASE \/ Deploy \/ \E u \in User : UserBegin(u)
           \/ \E w \in Worker : \/ \E t \in Timer : Deliver(w, t)
                                \/ WorkerBegin(w) \/ WorkerRefused(w) \/ Mark(w) \/ Ack(w)
           \/ \E c \in Caller : Crash(c)
  BY <1>3 DEF CaseVars, Deploy, UserBegin, Deliver, WorkerBegin, WorkerRefused,
              Mark, Ack, Crash, Begin
<1>4. CASE \/ \E t \in Timer : BecomeDue(t) \/ CancelTimer(t) \/ RescheduleTimer(t)
           \/ SchedulerSend \/ SchedulerStamp \/ SchedulerRollback \/ UNCHANGED vars
  BY <1>4 DEF CaseVars, vars, BecomeDue, CancelTimer, RescheduleTimer,
              SchedulerSend, SchedulerStamp, SchedulerRollback
<1>5. QED
  BY <1>1, <1>2, <1>3, <1>4 DEF Next, WorkerStep, Caller

\* Hiding transactions, timers, messages and crashes, every behaviour of the
\* runtime is one that CaseLifecycle allows.
THEOREM RuntimeImplementsLifecycle == Spec => RefinesCaseLifecycle
<1>1. Init => Lifecycle!Init
  BY DEF Init, Lifecycle!Init
<1>2. TInv /\ CaseInv /\ [Next]_vars => [Lifecycle!Next]_CaseVars
  BY LifecycleNext
<1>3. QED
  BY <1>1, <1>2, CaseInvariant, PTL DEF Spec, RefinesCaseLifecycle, Lifecycle!Spec, CaseVars
-----------------------------------------------------------------------------
(***************************************************************************)
(* The timers.  Every step treats a row in one of two ways: it keeps the   *)
(* row, moving at most its status along the edges the guarded updates      *)
(* allow (Kept), or it is the transaction that creates it, for the visit   *)
(* its case has just begun (Fresh).                                        *)
(***************************************************************************)
Edge == { <<"pending", "enqueued">>, <<"pending", "cancelled">>, <<"enqueued", "executed">> }

SameTimer(old, new) ==
  /\ new.inst = old.inst /\ new.action = old.action
  /\ new.expected = old.expected /\ new.born = old.born

Kept(t) ==
  /\ SameTimer(timer[t], timer'[t])
  /\ \/ timer'[t].status = timer[t].status
     \/ <<timer[t].status, timer'[t].status>> \in Edge

Fresh(t) ==
  /\ timer[t].status = "absent" /\ timer'[t].status = "pending"
  /\ \E i \in Instance :
       /\ timer'[t].inst = i
       /\ ~done[i] /\ Started(i)'
       /\ timer'[t].born = Len(hist'[i])
       /\ timer'[t].expected = state'[i]

\* The row is either kept as it was or has just been swept.
LEMMA SweptKeeps ==
  ASSUME TypeOK, NEW i \in Instance, NEW t \in Timer
  PROVE  /\ SameTimer(timer[t], Swept(timer, i)[t])
         /\ \/ Swept(timer, i)[t].status = timer[t].status
            \/ timer[t].status = "pending" /\ Swept(timer, i)[t].status = "cancelled"
         /\ ~(Swept(timer, i)[t].status = "pending" /\ Swept(timer, i)[t].inst = i)
<1> DEFINE off == [timer[t] EXCEPT !.status = "cancelled"]
<1>1. timer[t] \in TimerRow
  BY DEF TypeOK
<1>2. off.status = "cancelled" /\ SameTimer(timer[t], off)
  BY <1>1 DEF TimerRow, SameTimer
<1>3. Swept(timer, i)[t] = IF t \in PendingOf(i) THEN off ELSE timer[t]
  BY DEF Swept
<1> HIDE DEF off
<1>4. QED
  BY <1>2, <1>3 DEF SameTimer, PendingOf

\* What a commit does to the rows, and what a closing commit leaves pending.
LEMMA CommitTimers ==
  ASSUME TInv, CaseInv, NEW c \in Caller, Commit(c), NEW t \in Timer
  PROVE  /\ Kept(t) \/ Fresh(t)
         /\ \A i \in Instance :
              (/\ ~done[i] /\ done'[i]
               /\ timer'[t].status = "pending" /\ timer'[t].inst = i) => Fresh(t)
<1>0. PICK i \in Instance : i = tx[c].inst
  BY CommitFacts
<1> DEFINE terminal == tx[c].to \in DefOf(i).terminal
           swept == IF terminal THEN Swept(timer, i) ELSE timer
           n == Len(hist[i]) + 1
<1>1. /\ Started(i) /\ ~done[i] /\ tx[c].to \in State
      /\ state' = [state EXCEPT ![i] = tx[c].to]
      /\ done' = [done EXCEPT ![i] = terminal]
      /\ \E row : hist' = [hist EXCEPT ![i] = Append(@, row)] /\ row \in HistRow
  <2> DEFINE row == [from |-> tx[c].from, to |-> tx[c].to,
                     action |-> tx[c].action, src |-> tx[c].src]
  <2>1. tx[c] \in Transaction /\ pc[c] = "open"
    BY DEF TInv, TypeOK, Commit
  <2>2. row \in HistRow
    BY <2>1 DEF TInv, RefsOK, HistRow, Transaction
  <2>3. QED
    BY <1>0, <2>2, CommitFacts
<1>2. /\ Len(hist'[i]) = n /\ n \in Nat /\ state'[i] = tx[c].to /\ Started(i)'
      /\ done'[i] = terminal
      /\ \A j \in Instance : ~done[j] /\ done'[j] => j = i
  <2>1. hist[i] \in Seq(HistRow) /\ hist \in [Instance -> Seq(HistRow)]
        /\ state \in [Instance -> State \cup {NoState}] /\ done \in [Instance -> BOOLEAN]
    BY DEF TInv, TypeOK
  <2>2. Len(hist'[i]) = n /\ n \in Nat
    BY <1>1, <2>1
  <2>3. QED
    BY <1>1, <2>1, <2>2, NullAssumption DEF Started
<1>3. /\ swept \in [Timer -> TimerRow]
      /\ tx[c].sched \in SUBSET Action
  BY SweptType DEF TInv, TypeOK, Transaction
<1>4. PICK f \in Allocations(tx[c].sched) :
        timer' = Scheduled(swept, f, i, tx[c].to, n)
  BY <1>0 DEF Commit
<1>5. \/ timer'[t] = swept[t]
      \/ /\ t \in Free /\ timer'[t].status = "pending" /\ timer'[t].inst = i
         /\ timer'[t].expected = tx[c].to /\ timer'[t].born = n
  BY <1>1, <1>2, <1>3, <1>4, ScheduledType DEF TInv
<1>6. /\ SameTimer(timer[t], swept[t])
      /\ \/ swept[t].status = timer[t].status
         \/ timer[t].status = "pending" /\ swept[t].status = "cancelled"
      /\ terminal => ~(swept[t].status = "pending" /\ swept[t].inst = i)
  BY SweptKeeps DEF TInv, SameTimer
<1> HIDE DEF terminal, swept, n
<1>7. CASE timer'[t] = swept[t]
  <2>1. Kept(t)
    BY <1>6, <1>7 DEF Kept, Edge
  <2>2. QED
    BY <1>2, <1>6, <1>7, <2>1
<1>8. CASE /\ t \in Free /\ timer'[t].status = "pending" /\ timer'[t].inst = i
           /\ timer'[t].expected = tx[c].to /\ timer'[t].born = n
  BY <1>1, <1>2, <1>8 DEF Fresh, Free
<1>9. QED
  BY <1>5, <1>7, <1>8

LEMMA StartTimers ==
  ASSUME TInv, CaseInv, NEW i \in Instance, Start(i), NEW t \in Timer
  PROVE  Kept(t) \/ Fresh(t)
<1>1. /\ latest \in Version /\ timer \in [Timer -> TimerRow]
      /\ state \in [Instance -> State \cup {NoState}]
  BY DEF TInv, TypeOK
<1>2. Defs[latest].initial \in State /\ Defs[latest].initSched \in SUBSET Action
  BY <1>1, DefFacts
<1>3. PICK f \in Allocations(Defs[latest].initSched) :
        timer' = Scheduled(timer, f, i, Defs[latest].initial, 0)
  BY DEF Start
<1>4. \/ timer'[t] = timer[t]
      \/ /\ t \in Free /\ timer'[t].status = "pending" /\ timer'[t].inst = i
         /\ timer'[t].expected = Defs[latest].initial /\ timer'[t].born = 0
  BY <1>1, <1>2, <1>3, ScheduledType DEF TInv
<1>5. /\ state'[i] = Defs[latest].initial /\ Started(i)' /\ ~done[i]
      /\ hist'[i] = <<>>
  BY <1>1, <1>2, NullAssumption DEF Start, Started, CaseInv, DoneOK, FreshOK
<1>6. Len(hist'[i]) = 0
  BY <1>5
<1>7. QED
  BY <1>4, <1>5, <1>6 DEF Kept, Fresh, SameTimer, Free

\* The scheduler, the administrator and the worker's stamp.
LEMMA StatusTimers ==
  ASSUME TInv, NEW t \in Timer,
         \/ \E u \in Timer : BecomeDue(u) \/ CancelTimer(u) \/ RescheduleTimer(u)
         \/ SchedulerStamp
         \/ \E w \in Worker : Mark(w)
  PROVE  Kept(t)
<1>1. timer \in [Timer -> TimerRow] /\ timer[t] \in TimerRow
  BY DEF TInv, TypeOK
<1> DEFINE moved(s) == [timer[t] EXCEPT !.status = s]
           early(b) == [timer[t] EXCEPT !.due = b]
<1>2. \A s \in TimerStatus : moved(s).status = s /\ SameTimer(timer[t], moved(s))
  BY <1>1 DEF TimerRow, SameTimer
<1>3. \A b \in BOOLEAN : early(b).status = timer[t].status /\ SameTimer(timer[t], early(b))
  BY <1>1 DEF TimerRow, SameTimer
<1>4. \/ timer'[t] = timer[t]
      \/ \E b \in BOOLEAN : timer'[t] = early(b)
      \/ /\ timer[t].status = "pending"
         /\ timer'[t] = moved("enqueued") \/ timer'[t] = moved("cancelled")
      \/ timer[t].status = "enqueued" /\ timer'[t] = moved("executed")
  <2>1. CASE \E u \in Timer : BecomeDue(u) \/ CancelTimer(u) \/ RescheduleTimer(u)
    BY <1>1, <2>1 DEF BecomeDue, CancelTimer, RescheduleTimer
  <2>2. CASE SchedulerStamp
    BY <1>1, <2>2 DEF SchedulerStamp
  <2>3. CASE \E w \in Worker : Mark(w)
    BY <1>1, <2>3 DEF Mark, Executed
  <2>4. QED
    BY <2>1, <2>2, <2>3
<1> HIDE DEF moved, early
<1>5. QED
  BY <1>2, <1>3, <1>4 DEF Kept, Edge, SameTimer, TimerStatus

LEMMA TimerStep ==
  ASSUME TInv, CaseInv, [Next]_vars, NEW t \in Timer
  PROVE  Kept(t) \/ Fresh(t)
<1>1. CASE \E i \in Instance : Start(i)
  BY <1>1, StartTimers
<1>2. CASE \E c \in Caller : Commit(c)
  BY <1>2, CommitTimers
<1>3. CASE \/ \E u \in Timer : BecomeDue(u) \/ CancelTimer(u) \/ RescheduleTimer(u)
           \/ SchedulerStamp
           \/ \E w \in Worker : Mark(w)
  BY <1>3, StatusTimers
<1>4. CASE \/ Deploy \/ \E u \in User : UserBegin(u)
           \/ \E w \in Worker : \/ \E u \in Timer : Deliver(w, u)
                                \/ WorkerBegin(w) \/ WorkerRefused(w) \/ Ack(w)
           \/ \E c \in Caller : Crash(c)
           \/ SchedulerSend \/ SchedulerRollback \/ UNCHANGED vars
  <2>1. timer' = timer
    BY <1>4 DEF Deploy, UserBegin, Deliver, WorkerBegin, WorkerRefused, Ack, Crash, Begin,
                SchedulerSend, SchedulerRollback, vars
  <2>2. QED
    BY <2>1 DEF Kept, SameTimer
<1>5. QED
  BY <1>1, <1>2, <1>3, <1>4 DEF Next, WorkerStep, Caller

\* The cases side of a step: a closed case no longer changes, a case is closed
\* only by a commit, and the rows of a started case only grow.
LEMMA ClosingStep ==
  ASSUME TInv, CaseInv, [Next]_vars, NEW i \in Instance
  PROVE  /\ done[i] => done'[i] /\ hist'[i] = hist[i]
         /\ \A t \in Timer :
              (/\ ~done[i] /\ done'[i]
               /\ timer'[t].status = "pending" /\ timer'[t].inst = i) => Fresh(t)
<1>1. CASE \E c \in Caller : Commit(c)
  <2>1. PICK c \in Caller : Commit(c)
    BY <1>1
  <2>2. done[i] => done'[i] /\ hist'[i] = hist[i]
    <3>1. PICK j \in Instance : j = tx[c].inst
      BY <2>1, CommitFacts
    <3>2. /\ ~done[j]
          /\ done' = [done EXCEPT ![j] = tx[c].to \in DefOf(j).terminal]
          /\ \E row : hist' = [hist EXCEPT ![j] = Append(@, row)]
      BY <2>1, <3>1, CommitFacts
    <3>3. done \in [Instance -> BOOLEAN] /\ hist \in [Instance -> Seq(HistRow)]
      BY DEF TInv, TypeOK
    <3>4. QED
      BY <3>2, <3>3
  <2>3. QED
    BY <2>1, <2>2, CommitTimers
<1>2. CASE ~ \E c \in Caller : Commit(c)
  <2>1. done' = done /\ hist' = hist
    BY <1>2 DEF Next, WorkerStep, Caller, vars, Deploy, Start, UserBegin, Begin, Deliver,
                WorkerBegin, WorkerRefused, Mark, Ack, Crash, BecomeDue, CancelTimer,
                RescheduleTimer, SchedulerSend, SchedulerStamp, SchedulerRollback
  <2>2. QED
    BY <2>1
<1>3. QED
  BY <1>1, <1>2

\* The terminal sweep leaves nothing behind: a closed case has no pending timer
\* but those its closing transition created.
THEOREM AlwaysSwept == Spec => []NoTimerOutlivesItsCase
<1>1. Init => NoTimerOutlivesItsCase
  BY DEF Init, NoTimerOutlivesItsCase
<1>2. TInv /\ CaseInv /\ NoTimerOutlivesItsCase /\ [Next]_vars => NoTimerOutlivesItsCase'
  <2> SUFFICES ASSUME TInv, CaseInv, NoTimerOutlivesItsCase, [Next]_vars,
                      NEW i \in Instance, done'[i],
                      NEW t \in Timer, timer'[t].status = "pending", timer'[t].inst = i
               PROVE  timer'[t].born = Len(hist'[i])
    BY DEF NoTimerOutlivesItsCase, PendingOf
  <2>1. CASE ~done[i]
    <3>1. Fresh(t)
      BY <2>1, ClosingStep
    <3>2. QED
      BY <3>1 DEF Fresh
  <2>2. CASE done[i]
    <3>1. hist'[i] = hist[i]
      BY <2>2, ClosingStep
    <3>2. Kept(t) \/ Fresh(t)
      BY TimerStep
    <3>3. Kept(t)
      BY <2>2, <3>2 DEF Fresh
    <3>4. timer[t].status = "pending" /\ timer[t].inst = i /\ timer'[t].born = timer[t].born
      BY <3>3 DEF Kept, SameTimer, Edge
    <3>5. QED
      BY <2>2, <3>1, <3>4 DEF NoTimerOutlivesItsCase, PendingOf
  <2>3. QED
    BY <2>1, <2>2
<1>3. QED
  BY <1>1, <1>2, CaseInvariant, PTL DEF Spec

\* Final statuses are final, and the stamps come in their order, whoever races:
\* the early delivery, the redelivery, the sweep and the administrator.
THEOREM TimersKeepTheirOrder == Spec => TimerLifecycle
<1> DEFINE A == \A t \in Timer :
                  timer'[t].status # timer[t].status =>
                    <<timer[t].status, timer'[t].status>> \in
                      {<<"absent", "pending">>, <<"pending", "enqueued">>,
                       <<"pending", "cancelled">>, <<"enqueued", "executed">>}
<1>1. TInv /\ CaseInv /\ [Next]_vars => [A]_vars
  <2> SUFFICES ASSUME TInv, CaseInv, [Next]_vars, NEW t \in Timer,
                      timer'[t].status # timer[t].status
               PROVE  <<timer[t].status, timer'[t].status>> \in
                        {<<"absent", "pending">>, <<"pending", "enqueued">>,
                         <<"pending", "cancelled">>, <<"enqueued", "executed">>}
    OBVIOUS
  <2>1. Kept(t) \/ Fresh(t)
    BY TimerStep
  <2>2. QED
    BY <2>1 DEF Kept, Fresh, Edge
<1>2. QED
  BY <1>1, CaseInvariant, PTL DEF Spec, TimerLifecycle
-----------------------------------------------------------------------------
(***************************************************************************)
(* expectedState.  A timer remembers the name of the state it was created  *)
(* in, so a moved case is told from an unmoved one only if it cannot come  *)
(* back to a state of that name.  The two theorems below are for such      *)
(* definitions: some rank of each version's states rises with every        *)
(* transition.  TLC finds StaleTimerNeverMovesCase false without it.       *)
(***************************************************************************)
Climbs(rank) ==
  \A v \in Version : \A tr \in Defs[v].trans : rank[v][tr.from] < rank[v][tr.to]

NeverReturns == \E rank \in [Version -> [State -> Nat]] : Climbs(rank)

Rank == CHOOSE rank \in [Version -> [State -> Nat]] : Climbs(rank)

RankOf(i, k) == Rank[pinned[i]][Before(i, k)]

\* A timer's row tells the visit it was created for.
BornOK ==
  \A t \in Timer : HasRow(t) =>
    LET i == timer[t].inst
    IN /\ Started(i)
       /\ timer[t].born \in 0 .. Len(hist[i])
       /\ timer[t].expected = Before(i, timer[t].born + 1)

\* The transaction a worker has open is the one its timer asked for.
AskedOK ==
  \A c \in Caller : pc[c] = "open" =>
    /\ c \in User => tx[c].src = NoTimer
    /\ c \in Worker => /\ tx[c].inst = timer[tx[c].src].inst
                       /\ tx[c].from = timer[tx[c].src].expected

\* A transition a timer made left the state the timer was created in.
MovedOK ==
  \A i \in Instance : \A k \in 1 .. Len(hist[i]) :
    hist[i][k].src # NoTimer =>
      LET t == hist[i][k].src
      IN t \in Timer /\ HasRow(t) /\ timer[t].inst = i /\ timer[t].expected = Before(i, k)

\* Each move of a case raised its rank above every earlier one.
RisenOK ==
  \A i \in Instance : \A j, k \in 1 .. (Len(hist[i]) + 1) :
    j < k => RankOf(i, j) < RankOf(i, k)

VisitInv == BornOK /\ AskedOK /\ MovedOK /\ RisenOK

LEMMA RankFacts ==
  ASSUME NeverReturns
  PROVE  Rank \in [Version -> [State -> Nat]] /\ Climbs(Rank)
BY DEF NeverReturns, Rank

\* The states a started case has stood in are states.
LEMMA BeforeIsState ==
  ASSUME TInv, CaseInv, NEW i \in Instance, Started(i), NEW k \in 1 .. (Len(hist[i]) + 1)
  PROVE  Before(i, k) \in State
<1>1. hist[i] \in Seq(HistRow) /\ pinned[i] \in Version
  BY DEF TInv, TypeOK
<1>2. CASE k = 1
  BY <1>1, <1>2, DefFacts DEF Before, DefOf
<1>3. CASE k # 1
  <2>1. k - 1 \in 1 .. Len(hist[i]) /\ hist[i][k - 1] \in HistRow
    BY <1>1, <1>3
  <2>2. QED
    BY <1>3, <2>1 DEF Before, HistRow
<1>4. QED
  BY <1>2, <1>3

\* A started case only grows: what it stood in, it has stood in.
LEMMA PastStep ==
  ASSUME TInv, CaseInv, [Next]_vars, NEW i \in Instance, Started(i)
  PROVE  /\ Started(i)' /\ pinned'[i] = pinned[i]
         /\ Len(hist'[i]) >= Len(hist[i])
         /\ \A k \in 1 .. (Len(hist[i]) + 1) : Before(i, k)' = Before(i, k)
         /\ \A k \in 1 .. Len(hist[i]) : hist'[i][k] = hist[i][k]
<1>0. /\ state \in [Instance -> State \cup {NoState}] /\ hist \in [Instance -> Seq(HistRow)]
      /\ pinned \in [Instance -> Version] /\ Len(hist[i]) \in Nat
  BY DEF TInv, TypeOK
<1>1. CASE \E c \in Caller : Commit(c)
  <2>1. PICK c \in Caller : Commit(c)
    BY <1>1
  <2>2. PICK j \in Instance : j = tx[c].inst
    BY <2>1, CommitFacts
  <2>3. /\ pinned' = pinned /\ tx[c].to \in State
        /\ state' = [state EXCEPT ![j] = tx[c].to]
        /\ hist' = [hist EXCEPT ![j] = Append(@, [from |-> tx[c].from, to |-> tx[c].to,
                                       action |-> tx[c].action, src |-> tx[c].src])]
    BY <2>1, <2>2, CommitFacts
  <2>4. tx[c] \in Transaction
    BY DEF TInv, TypeOK
  <2>5. PICK row \in HistRow : hist' = [hist EXCEPT ![j] = Append(@, row)]
    <3>1. [from |-> tx[c].from, to |-> tx[c].to,
           action |-> tx[c].action, src |-> tx[c].src] \in HistRow
      BY <2>1, <2>3, <2>4 DEF HistRow, Transaction, TInv, RefsOK, Commit
    <3>2. QED
      BY <2>3, <3>1
  <2>6. /\ Len(hist'[i]) >= Len(hist[i])
        /\ \A k \in 1 .. Len(hist[i]) : hist'[i][k] = hist[i][k]
    <3>1. CASE i = j
      BY <1>0, <2>5, <3>1
    <3>2. CASE i # j
      BY <1>0, <2>5, <3>2
    <3>3. QED
      BY <3>1, <3>2
  <2>7. Started(i)' /\ DefOf(i)' = DefOf(i)
    BY <1>0, <2>3, NullAssumption DEF Started, DefOf
  <2>8. ASSUME NEW k \in 1 .. (Len(hist[i]) + 1)
        PROVE  Before(i, k)' = Before(i, k)
    <3>1. CASE k = 1
      BY <2>7, <3>1 DEF Before
    <3>2. CASE k # 1
      <4>1. k - 1 \in 1 .. Len(hist[i])
        BY <1>0, <3>2
      <4>2. hist'[i][k - 1] = hist[i][k - 1]
        BY <2>6, <4>1
      <4>3. QED
        BY <3>2, <4>2 DEF Before
    <3>3. QED
      BY <3>1, <3>2
  <2>9. QED
    BY <2>3, <2>6, <2>7, <2>8
<1>2. CASE \E j \in Instance : Start(j)
  <2>1. PICK j \in Instance : Start(j)
    BY <1>2
  <2>2. i # j /\ hist' = hist /\ state'[i] = state[i] /\ pinned'[i] = pinned[i]
    BY <1>0, <2>1 DEF Start
  <2>3. QED
    BY <1>0, <2>2 DEF Started, DefOf, Before
<1>3. CASE ~(\E c \in Caller : Commit(c)) /\ ~(\E j \in Instance : Start(j))
  <2>1. state' = state /\ hist' = hist /\ pinned' = pinned
    BY <1>3 DEF Next, WorkerStep, Caller, vars, Deploy, UserBegin, Begin, Deliver,
                WorkerBegin, WorkerRefused, Mark, Ack, Crash, BecomeDue, CancelTimer,
                RescheduleTimer, SchedulerSend, SchedulerStamp, SchedulerRollback
  <2>2. QED
    BY <1>0, <2>1 DEF Started, DefOf, Before
<1>4. QED
  BY <1>1, <1>2, <1>3

LEMMA BornNext ==
  ASSUME TInv, CaseInv, BornOK, [Next]_vars
  PROVE  BornOK'
<1> SUFFICES ASSUME NEW t \in Timer, HasRow(t)'
             PROVE  /\ Started(timer[t].inst)'
                    /\ timer'[t].born \in 0 .. Len(hist'[timer'[t].inst])
                    /\ timer'[t].expected = Before(timer[t].inst, timer[t].born + 1)'
  BY DEF BornOK
<1>1. CASE Kept(t)
  <2>1. /\ HasRow(t)
        /\ timer'[t].inst = timer[t].inst /\ timer'[t].born = timer[t].born
        /\ timer'[t].expected = timer[t].expected
    BY <1>1 DEF Kept, SameTimer, Edge, HasRow
  <2>2. PICK i \in Instance : i = timer[t].inst
    BY <2>1 DEF TInv, RefsOK
  <2>3. PICK b \in 0 .. Len(hist[i]) : b = timer[t].born
    BY <2>1, <2>2 DEF BornOK
  <2>4. Started(i) /\ timer[t].expected = Before(i, b + 1)
    BY <2>1, <2>2, <2>3 DEF BornOK
  <2>5. Len(hist[i]) \in Nat /\ Len(hist'[i]) \in Nat
    BY TInvNext DEF TInv, TypeOK
  <2>6. Started(i)' /\ Len(hist'[i]) >= Len(hist[i]) /\ Before(i, b + 1)' = Before(i, b + 1)
    BY <2>4, <2>5, PastStep
  <2>7. timer'[t].inst = i /\ timer'[t].born = b
    BY <2>1, <2>2, <2>3
  <2>8. Before(timer[t].inst, timer[t].born + 1)' = Before(i, b + 1)'
    BY <2>7 DEF Before, DefOf
  <2>9. Started(timer[t].inst)'
    BY <2>6, <2>7 DEF Started
  <2>10. QED
    BY <2>1, <2>4, <2>5, <2>6, <2>7, <2>8, <2>9
<1>2. CASE Fresh(t)
  <2>1. PICK i \in Instance :
          /\ timer'[t].inst = i /\ Started(i)'
          /\ timer'[t].born = Len(hist'[i]) /\ timer'[t].expected = state'[i]
    BY <1>2 DEF Fresh
  <2>2. PathOf(i)'
    BY <2>1, CaseNext DEF CaseInv, PathOK
  <2>3. Len(hist'[i]) \in Nat
    BY TInvNext DEF TInv, TypeOK
  <2>4. state'[i] = Before(i, Len(hist[i]) + 1)'
    BY <2>2 DEF PathOf
  <2>5. Before(timer[t].inst, timer[t].born + 1)' = Before(i, Len(hist[i]) + 1)'
    BY <2>1 DEF Before, DefOf
  <2>6. Started(timer[t].inst)'
    BY <2>1 DEF Started
  <2>7. QED
    BY <2>1, <2>3, <2>4, <2>5, <2>6
<1>3. QED
  BY <1>1, <1>2, TimerStep

LEMMA AskedNext ==
  ASSUME TInv, CaseInv, AskedOK, [Next]_vars
  PROVE  AskedOK'
<1> SUFFICES ASSUME NEW c \in Caller, pc'[c] = "open"
             PROVE  /\ c \in User => tx'[c].src = NoTimer
                    /\ c \in Worker => /\ tx'[c].inst = timer'[tx'[c].src].inst
                                       /\ tx'[c].from = timer'[tx'[c].src].expected
  BY DEF AskedOK
<1>0. tx \in [Caller -> Transaction] /\ DOMAIN pc = Caller
  BY DEF TInv, TypeOK
<1>1. CASE pc[c] = "open" /\ tx'[c] = tx[c]
  <2>1. CASE c \in User
    BY <1>1, <2>1, CallerAssumption DEF AskedOK
  <2>2. CASE c \in Worker
    <3>1. tx[c].src \in Timer /\ HasRow(tx[c].src)
      BY <1>1, <2>2 DEF TInv, RefsOK
    <3>2. Kept(tx[c].src)
      BY <3>1, TimerStep DEF Fresh, HasRow
    <3>3. QED
      BY <1>1, <2>2, <3>2, CallerAssumption DEF AskedOK, Kept, SameTimer
  <2>3. QED
    BY <2>1, <2>2 DEF Caller
<1>2. CASE c \in User /\ UserBegin(c)
  BY <1>0, <1>2, CallerAssumption DEF UserBegin, Begin
<1>3. CASE c \in Worker /\ WorkerBegin(c)
  <2>1. PICK tr \in TimerTransitions(tx[c].src) :
          Begin(c, timer[tx[c].src].inst, tr, tx[c].src)
    BY <1>3 DEF WorkerBegin
  <2>2. state[timer[tx[c].src].inst] = timer[tx[c].src].expected
    BY <2>1 DEF TimerTransitions
  <2>3. /\ tx'[c].inst = timer[tx[c].src].inst /\ tx'[c].from = state[timer[tx[c].src].inst]
        /\ tx'[c].src = tx[c].src /\ timer' = timer
    BY <1>0, <2>1 DEF Begin
  <2>4. QED
    BY <1>3, <2>2, <2>3, CallerAssumption
<1>4. (pc[c] = "open" /\ tx'[c] = tx[c]) \/ (c \in User /\ UserBegin(c))
        \/ (c \in Worker /\ WorkerBegin(c))
  <2>1. CASE \E d \in Caller : Commit(d)
    BY <2>1, CommitFacts
  <2>2. CASE \E u \in User : UserBegin(u)
    <3>1. PICK u \in User : UserBegin(u)
      BY <2>2
    <3>2. c = u \/ (pc'[c] = pc[c] /\ tx'[c] = tx[c])
      BY <1>0, <3>1 DEF UserBegin, Begin
    <3>3. QED
      BY <3>1, <3>2
  <2>3. CASE \E w \in Worker : WorkerBegin(w)
    <3>1. PICK w \in Worker : WorkerBegin(w)
      BY <2>3
    <3>2. c = w \/ (pc'[c] = pc[c] /\ tx'[c] = tx[c])
      BY <1>0, <3>1 DEF WorkerBegin, Begin
    <3>3. QED
      BY <3>1, <3>2
  <2>4. CASE \/ Deploy \/ \E i \in Instance : Start(i)
             \/ \E w \in Worker : \/ \E t \in Timer : Deliver(w, t)
                                  \/ WorkerRefused(w) \/ Mark(w) \/ Ack(w)
             \/ \E d \in Caller : Crash(d)
    BY <1>0, <2>4 DEF Deploy, Start, Deliver, WorkerRefused, Mark, Ack, Crash
  <2>5. CASE \/ \E t \in Timer : BecomeDue(t) \/ CancelTimer(t) \/ RescheduleTimer(t)
             \/ SchedulerSend \/ SchedulerStamp \/ SchedulerRollback \/ UNCHANGED vars
    BY <2>5 DEF vars, BecomeDue, CancelTimer, RescheduleTimer,
                SchedulerSend, SchedulerStamp, SchedulerRollback
  <2>6. QED
    BY <2>1, <2>2, <2>3, <2>4, <2>5 DEF Next, WorkerStep, Caller
<1>5. QED
  BY <1>1, <1>2, <1>3, <1>4

\* Either the rows of a case stay, or one commit appends the row of a transition
\* of the case's definition that leaves the state it stands in.
LEMMA AppendStep ==
  ASSUME TInv, CaseInv, [Next]_vars, NEW i \in Instance, hist'[i] # hist[i]
  PROVE  /\ Started(i)
         /\ \E c \in Caller :
              LET row == [from |-> tx[c].from, to |-> tx[c].to,
                          action |-> tx[c].action, src |-> tx[c].src]
              IN /\ pc[c] = "open" /\ tx[c].inst = i /\ tx[c].from = state[i]
                 /\ Taken(i, tx[c].from, tx[c].to, tx[c].action)
                 /\ row \in HistRow
                 /\ hist'[i] = Append(hist[i], row)
<1>1. CASE \E c \in Caller : Commit(c)
  <2>1. PICK c \in Caller : Commit(c)
    BY <1>1
  <2> DEFINE row == [from |-> tx[c].from, to |-> tx[c].to,
                     action |-> tx[c].action, src |-> tx[c].src]
  <2>2. PICK j \in Instance : j = tx[c].inst
    BY <2>1, CommitFacts
  <2>3. /\ pc[c] = "open" /\ Started(j) /\ tx[c].from = state[j]
        /\ Taken(j, tx[c].from, tx[c].to, tx[c].action)
        /\ hist' = [hist EXCEPT ![j] = Append(@, row)]
    BY <2>1, <2>2, CommitFacts
  <2>4. hist \in [Instance -> Seq(HistRow)] /\ tx[c] \in Transaction
    BY DEF TInv, TypeOK
  <2>5. row \in HistRow
    BY <2>3, <2>4 DEF TInv, RefsOK, HistRow, Transaction
  <2> HIDE DEF row
  <2>6. i = j
    BY <2>3, <2>4
  <2>7. hist'[i] = Append(hist[i], row)
    BY <2>3, <2>4, <2>6
  <2>8. QED
    BY <2>2, <2>3, <2>5, <2>6, <2>7 DEF row
<1>2. CASE ~ \E c \in Caller : Commit(c)
  BY <1>2 DEF Next, WorkerStep, Caller, vars, Deploy, Start, UserBegin, Begin, Deliver,
              WorkerBegin, WorkerRefused, Mark, Ack, Crash, BecomeDue, CancelTimer,
              RescheduleTimer, SchedulerSend, SchedulerStamp, SchedulerRollback
<1>3. QED
  BY <1>1, <1>2

LEMMA MovedNext ==
  ASSUME TInv, CaseInv, AskedOK, MovedOK, [Next]_vars
  PROVE  MovedOK'
<1> SUFFICES ASSUME NEW i \in Instance, NEW k \in 1 .. Len(hist'[i]),
                    hist'[i][k].src # NoTimer
             PROVE  LET t == hist'[i][k].src
                    IN /\ t \in Timer /\ timer'[t].status # "absent"
                       /\ timer'[t].inst = i /\ timer'[t].expected = Before(i, k)'
  BY DEF MovedOK, HasRow
<1>0. PICK t : t = hist'[i][k].src
  OBVIOUS
<1>1. hist[i] \in Seq(HistRow) /\ Len(hist[i]) \in Nat
  BY DEF TInv, TypeOK
<1>2. Started(i)
  <2>1. CASE hist'[i] = hist[i]
    BY <1>1, <2>1 DEF CaseInv, FreshOK
  <2>2. CASE hist'[i] # hist[i]
    BY <2>2, AppendStep
  <2>3. QED
    BY <2>1, <2>2
<1>3. t \in Timer /\ HasRow(t) /\ timer[t].inst = i /\ k \in 1 .. (Len(hist[i]) + 1)
      /\ timer[t].expected = Before(i, k)
  <2>1. CASE k \in 1 .. Len(hist[i])
    <3>1. hist'[i][k] = hist[i][k]
      BY <1>2, <2>1, PastStep
    <3>2. QED
      BY <1>0, <1>1, <2>1, <3>1 DEF MovedOK
  <2>2. CASE k \notin 1 .. Len(hist[i])
    <3>1. hist'[i] # hist[i]
      BY <2>2
    <3>2. PICK c \in Caller, row \in HistRow :
            /\ pc[c] = "open" /\ tx[c].inst = i /\ tx[c].from = state[i]
            /\ row.src = tx[c].src
            /\ hist'[i] = Append(hist[i], row)
      BY <3>1, AppendStep
    <3>3. k = Len(hist[i]) + 1 /\ hist'[i][k] = row
      BY <1>1, <2>2, <3>2
    <3>4. c \in Worker /\ t = tx[c].src
      BY <1>0, <3>2, <3>3 DEF AskedOK, Caller
    <3>5. t \in Timer /\ HasRow(t)
      BY <3>2, <3>4 DEF TInv, RefsOK
    <3>6. timer[t].inst = i /\ timer[t].expected = state[i]
      BY <3>2, <3>4 DEF AskedOK
    <3>7. state[i] = Before(i, k)
      BY <1>2, <3>3 DEF CaseInv, PathOK, PathOf
    <3>8. QED
      BY <1>1, <3>3, <3>5, <3>6, <3>7
  <2>3. QED
    BY <2>1, <2>2
<1>4. Before(i, k)' = Before(i, k)
  BY <1>2, <1>3, PastStep
<1>5. Kept(t)
  BY <1>3, TimerStep DEF Fresh, HasRow
<1>6. timer'[t].status # "absent" /\ timer'[t].inst = i /\ timer'[t].expected = timer[t].expected
  BY <1>3, <1>5 DEF Kept, SameTimer, Edge, HasRow
<1>7. QED
  BY <1>0, <1>3, <1>4, <1>6

LEMMA RisenNext ==
  ASSUME NeverReturns, TInv, CaseInv, RisenOK, [Next]_vars
  PROVE  RisenOK'
<1> SUFFICES ASSUME NEW i \in Instance, NEW j \in 1 .. (Len(hist'[i]) + 1),
                    NEW k \in 1 .. (Len(hist'[i]) + 1), j < k
             PROVE  RankOf(i, j)' < RankOf(i, k)'
  BY DEF RisenOK
<1>1. /\ hist[i] \in Seq(HistRow) /\ Len(hist[i]) \in Nat /\ pinned[i] \in Version
      /\ Len(hist'[i]) \in Nat
  BY TInvNext DEF TInv, TypeOK
<1>2. Started(i)
  <2>1. CASE hist'[i] = hist[i]
    <3>1. Len(hist[i]) # 0 \/ Started(i)
      BY <1>1, <2>1
    <3>2. QED
      BY <1>1, <3>1 DEF CaseInv, FreshOK
  <2>2. CASE hist'[i] # hist[i]
    BY <2>2, AppendStep
  <2>3. QED
    BY <2>1, <2>2
<1> DEFINE n == Len(hist[i]) + 1
<1>3. \A m \in 1 .. n : RankOf(i, m)' = RankOf(i, m)
  BY <1>2, PastStep DEF RankOf
<1>4. CASE k \in 1 .. n
  <2>1. j \in 1 .. n
    BY <1>1, <1>4
  <2>2. QED
    BY <1>3, <1>4, <2>1 DEF RisenOK
<1>5. CASE k \notin 1 .. n
  <2>1. hist'[i] # hist[i]
    BY <1>5
  <2>2. PICK c \in Caller, row \in HistRow :
          /\ tx[c].from = state[i] /\ row.to = tx[c].to
          /\ Taken(i, tx[c].from, tx[c].to, tx[c].action)
          /\ hist'[i] = Append(hist[i], row)
    BY <2>1, AppendStep
  <2>3. k = n + 1 /\ n \in Nat /\ n >= 1 /\ j \in 1 .. n /\ hist'[i][n] = row
    BY <1>1, <1>5, <2>2
  <2>4. Before(i, k)' = tx[c].to
    BY <2>2, <2>3 DEF Before
  <2>5. state[i] = Before(i, n)
    BY <1>2 DEF CaseInv, PathOK, PathOf
  <2>6. PICK tr \in DefOf(i).trans : tr.from = tx[c].from /\ tr.to = tx[c].to
    BY <2>2 DEF Taken
  <2>7. Rank[pinned[i]][tx[c].from] < Rank[pinned[i]][tx[c].to]
    BY <1>1, <2>6, RankFacts DEF Climbs, DefOf
  <2>8. RankOf(i, k)' = Rank[pinned[i]][tx[c].to]
    BY <1>2, <2>4, PastStep DEF RankOf
  <2>9. RankOf(i, n) < RankOf(i, k)'
    BY <2>2, <2>5, <2>7, <2>8 DEF RankOf
  <2>10. tx[c].to \in State
    BY <1>1, <2>6, DefFacts DEF DefOf
  <2>11. RankOf(i, n) \in Nat /\ RankOf(i, j) \in Nat /\ RankOf(i, k)' \in Nat
    <3>1. Before(i, n) \in State /\ Before(i, j) \in State
      BY <1>1, <1>2, <2>3, BeforeIsState
    <3>2. QED
      BY <1>1, <2>8, <2>10, <3>1, RankFacts DEF RankOf
  <2>12. j = n \/ RankOf(i, j) < RankOf(i, n)
    BY <1>1, <2>3 DEF RisenOK
  <2>13. RankOf(i, j)' = RankOf(i, j)
    BY <1>3, <2>3
  <2>14. QED
    BY <2>9, <2>11, <2>12, <2>13
<1>6. QED
  BY <1>4, <1>5

LEMMA VisitInvariant ==
  ASSUME NeverReturns
  PROVE  Spec => [](TInv /\ CaseInv /\ VisitInv)
<1>1. Init => VisitInv
  <2> SUFFICES ASSUME Init PROVE VisitInv
    OBVIOUS
  <2>1. BornOK /\ AskedOK
    BY DEF Init, BornOK, AskedOK, HasRow, NoRow
  <2>2. MovedOK /\ RisenOK
    BY DEF Init, MovedOK, RisenOK
  <2>3. QED
    BY <2>1, <2>2 DEF VisitInv
<1>2. TInv /\ CaseInv /\ VisitInv /\ [Next]_vars => VisitInv'
  BY BornNext, AskedNext, MovedNext, RisenNext DEF VisitInv
<1>3. QED
  BY <1>1, <1>2, CaseInvariant, PTL DEF Spec

\* A timer that moved a case was created for the visit the case then left.
LEMMA TimerLeftItsVisit ==
  ASSUME NeverReturns, TInv, CaseInv, VisitInv,
         NEW i \in Instance, NEW k \in 1 .. Len(hist[i]), hist[i][k].src # NoTimer
  PROVE  timer[hist[i][k].src].born = k - 1
<1> DEFINE t == hist[i][k].src
<1>1. t \in Timer /\ HasRow(t) /\ timer[t].inst = i /\ timer[t].expected = Before(i, k)
  BY DEF VisitInv, MovedOK
<1> HIDE DEF t
<1>2. PICK b \in 0 .. Len(hist[i]) : b = timer[t].born
  BY <1>1 DEF VisitInv, BornOK
<1>3. Started(i) /\ timer[t].expected = Before(i, b + 1)
  BY <1>1, <1>2 DEF VisitInv, BornOK
<1>4. Len(hist[i]) \in Nat
  BY DEF TInv, TypeOK
<1> DEFINE m == b + 1
<1>5. m \in 1 .. (Len(hist[i]) + 1) /\ k \in 1 .. (Len(hist[i]) + 1)
  BY <1>4
<1>6. RankOf(i, m) = RankOf(i, k) /\ RankOf(i, k) \in Nat
  <2>1. Before(i, k) \in State /\ pinned[i] \in Version
    BY <1>3, <1>5, BeforeIsState DEF TInv, TypeOK
  <2>2. QED
    BY <1>1, <1>3, <2>1, RankFacts DEF RankOf
<1>7. (m < k => RankOf(i, m) < RankOf(i, k)) /\ (k < m => RankOf(i, k) < RankOf(i, m))
  BY <1>5 DEF VisitInv, RisenOK
<1>8. m = k
  BY <1>5, <1>6, <1>7
<1>9. QED
  BY <1>2, <1>8 DEF t

\* The expectedState contract, for definitions that never come back to a state:
\* late, early, repeated and cancelled deliveries alike, a timer moves its case
\* only out of the visit it was created for.
THEOREM StaleNeverMoves ==
  ASSUME NeverReturns
  PROVE  Spec => []StaleTimerNeverMovesCase
<1>1. TInv /\ CaseInv /\ VisitInv => StaleTimerNeverMovesCase
  <2> SUFFICES ASSUME TInv, CaseInv, VisitInv,
                      NEW i \in Instance, NEW k \in 1 .. Len(hist[i]),
                      hist[i][k].src # NoTimer,
                      NEW m \in (timer[hist[i][k].src].born + 1) .. (k - 1)
               PROVE  FALSE
    BY DEF StaleTimerNeverMovesCase
  <2>1. timer[hist[i][k].src].born = k - 1
    BY TimerLeftItsVisit
  <2>2. QED
    BY <2>1
<1>2. QED
  BY <1>1, VisitInvariant, PTL

\* ... so its message, however often it is delivered, moves the case once.
THEOREM MovesOnce ==
  ASSUME NeverReturns
  PROVE  Spec => []TimerMovesCaseOnce
<1>1. TInv /\ CaseInv /\ VisitInv => TimerMovesCaseOnce
  <2> SUFFICES ASSUME TInv, CaseInv, VisitInv, NEW i \in Instance,
                      NEW k \in 1 .. Len(hist[i]), NEW m \in 1 .. Len(hist[i]),
                      hist[i][k].src = hist[i][m].src, hist[i][k].src # NoTimer
               PROVE  k = m
    BY DEF TimerMovesCaseOnce
  <2>1. /\ timer[hist[i][k].src].born = k - 1
        /\ timer[hist[i][k].src].born = m - 1
    BY TimerLeftItsVisit
  <2>2. QED
    BY <2>1
<1>2. QED
  BY <1>1, VisitInvariant, PTL
-----------------------------------------------------------------------------
(***************************************************************************)
(* Nothing is lost.  A ripe timer is one whose case still waits where the  *)
(* timer found it, for a transition the timer may take.  Ripeness only     *)
(* ends, it never begins (RipeStep); a worker is done with a timer only    *)
(* when it is not ripe; so whatever the scheduler has sent and no handler  *)
(* has completed is still on the queue while it is ripe.                   *)
(***************************************************************************)
Ripe(t) ==
  /\ HasRow(t)
  /\ Len(hist[timer[t].inst]) = timer[t].born
  /\ \E tr \in TimerTransitions(t) : tr.by = "system" /\ ~tr.guarded

Sent(t) == t \in batch \/ timer[t].status \in {"enqueued", "executed"}

\* What was sent and is still ripe has its message.
SentOK == \A t \in Timer : Sent(t) /\ Ripe(t) => t \in queue

\* A worker that has finished with a timer left it nothing to do.
FinishedOK == \A w \in Worker : pc[w] \in {"mark", "ack"} => ~Ripe(tx[w].src)

ReachInv == BornOK /\ AskedOK /\ SentOK /\ FinishedOK

\* A timer whose row exists does not become ripe.
LEMMA RipeStep ==
  ASSUME TInv, CaseInv, BornOK, [Next]_vars, NEW t \in Timer, HasRow(t), Ripe(t)'
  PROVE  Ripe(t)
<1>1. PICK i \in Instance : i = timer[t].inst
  BY DEF TInv, RefsOK
<1>2. PICK b \in 0 .. Len(hist[i]) : b = timer[t].born
  BY <1>1 DEF BornOK
<1>3. Started(i) /\ timer[t].expected = Before(i, b + 1)
  BY <1>1, <1>2 DEF BornOK
<1>4. /\ timer'[t].inst = i /\ timer'[t].born = b
      /\ timer'[t].expected = timer[t].expected /\ timer'[t].action = timer[t].action
  BY <1>1, <1>2, TimerStep DEF Fresh, HasRow, Kept, SameTimer
<1>5. Len(hist[i]) \in Nat /\ Len(hist'[i]) \in Nat
  BY TInvNext DEF TInv, TypeOK
<1>6. Len(hist'[i]) = b
  BY <1>4 DEF Ripe
<1>7. pinned'[i] = pinned[i] /\ Len(hist'[i]) >= Len(hist[i])
  BY <1>3, PastStep
<1>8. Len(hist[i]) = b
  BY <1>2, <1>5, <1>6, <1>7
<1>9. state[i] = timer[t].expected
  BY <1>3, <1>8 DEF CaseInv, PathOK, PathOf
<1>10. PICK tr \in TimerTransitions(t)' : tr.by = "system" /\ ~tr.guarded
  BY DEF Ripe
<1>11. tr \in TransitionsFor(DefOf(i), timer[t].expected, timer[t].action)
  BY <1>4, <1>7, <1>10 DEF TimerTransitions, DefOf, TransitionsFor
<1>12. tr \in TimerTransitions(t)
  BY <1>1, <1>9, <1>11 DEF TimerTransitions
<1>13. QED
  BY <1>1, <1>2, <1>8, <1>10, <1>12 DEF Ripe

\* A message leaves the queue only when its handler has completed it.
LEMMA QueueStep ==
  ASSUME TInv, [Next]_vars, NEW t \in queue, t \notin queue'
  PROVE  \E w \in Worker : pc[w] = "ack" /\ tx[w].src = t
<1>1. CASE \E w \in Worker : Ack(w)
  BY <1>1 DEF Ack
<1>2. CASE SchedulerSend
  BY <1>2 DEF SchedulerSend
<1>3. CASE ~(\E w \in Worker : Ack(w)) /\ ~SchedulerSend
  BY <1>3 DEF Next, WorkerStep, vars, Deploy, Start, UserBegin, Begin, Deliver,
              WorkerBegin, WorkerRefused, Commit, Mark, Crash, BecomeDue, CancelTimer,
              RescheduleTimer, SchedulerStamp, SchedulerRollback
<1>4. QED
  BY <1>1, <1>2, <1>3

\* Only the scheduler's stamp writes "enqueued".
LEMMA NotStamped ==
  ASSUME TInv, CaseInv, [Next]_vars, ~SchedulerStamp,
         NEW t \in Timer, timer[t].status = "pending"
  PROVE  timer'[t].status # "enqueued"
<1>0. timer \in [Timer -> TimerRow]
  BY DEF TInv, TypeOK
<1>1. CASE \E i \in Instance : Start(i)
  <2>1. PICK i \in Instance : Start(i)
    BY <1>1
  <2>2. /\ latest \in Version /\ Defs[latest].initial \in State
        /\ Defs[latest].initSched \in SUBSET Action
    BY DefFacts DEF TInv, TypeOK
  <2>3. PICK f \in Allocations(Defs[latest].initSched) :
          timer' = Scheduled(timer, f, i, Defs[latest].initial, 0)
    BY <2>1 DEF Start
  <2>4. QED
    BY <1>0, <2>2, <2>3, ScheduledType DEF TInv
<1>2. CASE \E c \in Caller : Commit(c)
  <2>1. PICK c \in Caller : Commit(c)
    BY <1>2
  <2>2. PICK i \in Instance : i = tx[c].inst
    BY <2>1, CommitFacts
  <2> DEFINE swept == IF tx[c].to \in DefOf(i).terminal THEN Swept(timer, i) ELSE timer
  <2>3. /\ tx[c].to \in State /\ tx[c].sched \in SUBSET Action /\ Len(hist[i]) + 1 \in Nat
    <3>1. tx[c] \in Transaction /\ Len(hist[i]) \in Nat
      BY DEF TInv, TypeOK
    <3>2. tx[c].to \in State
      BY <2>1, CommitFacts
    <3>3. QED
      BY <3>1, <3>2 DEF Transaction
  <2>4. swept \in [Timer -> TimerRow]
    BY <1>0, SweptType DEF TInv
  <2>5. swept[t].status # "enqueued"
    BY SweptKeeps DEF TInv
  <2>6. PICK f \in Allocations(tx[c].sched) :
          timer' = Scheduled(swept, f, i, tx[c].to, Len(hist[i]) + 1)
    BY <2>1, <2>2 DEF Commit
  <2> HIDE DEF swept
  <2>7. QED
    BY <2>3, <2>4, <2>5, <2>6, ScheduledType DEF TInv
<1>3. CASE \/ \E u \in Timer : BecomeDue(u) \/ CancelTimer(u) \/ RescheduleTimer(u)
           \/ \E w \in Worker : Mark(w)
  <2>1. CASE \E u \in Timer : BecomeDue(u) \/ CancelTimer(u) \/ RescheduleTimer(u)
    <3>1. timer[t] \in TimerRow
      BY <1>0
    <3> DEFINE off == [timer[t] EXCEPT !.status = "cancelled"]
               early(b) == [timer[t] EXCEPT !.due = b]
    <3>2. off.status = "cancelled" /\ \A b \in BOOLEAN : early(b).status = "pending"
      BY <3>1 DEF TimerRow
    <3>3. \/ timer'[t] = timer[t] \/ timer'[t] = off
          \/ \E b \in BOOLEAN : timer'[t] = early(b)
      BY <1>0, <2>1 DEF BecomeDue, CancelTimer, RescheduleTimer
    <3> HIDE DEF off, early
    <3>4. QED
      BY <3>2, <3>3
  <2>2. CASE \E w \in Worker : Mark(w)
    <3>1. timer'[t] = timer[t]
      BY <1>0, <2>2 DEF Mark, Executed
    <3>2. QED
      BY <3>1
  <2>3. QED
    BY <1>3, <2>1, <2>2
<1>4. CASE \/ Deploy \/ \E u \in User : UserBegin(u)
           \/ \E w \in Worker : \/ \E u \in Timer : Deliver(w, u)
                                \/ WorkerBegin(w) \/ WorkerRefused(w) \/ Ack(w)
           \/ \E c \in Caller : Crash(c)
           \/ SchedulerSend \/ SchedulerRollback \/ UNCHANGED vars
  BY <1>4 DEF Deploy, UserBegin, Deliver, WorkerBegin, WorkerRefused, Ack, Crash, Begin,
              SchedulerSend, SchedulerRollback, vars
<1>5. QED
  BY <1>1, <1>2, <1>3, <1>4 DEF Next, WorkerStep, Caller

\* A timer becomes sent only by the send that puts its message on the queue.
LEMMA SentStep ==
  ASSUME TInv, CaseInv, [Next]_vars, NEW t \in Timer, Sent(t)', ~Sent(t)
  PROVE  t \in queue'
<1>1. CASE SchedulerSend
  BY <1>1 DEF SchedulerSend, Sent
<1>2. CASE ~SchedulerSend
  <2>1. batch' \subseteq batch
    BY <1>2 DEF Next, WorkerStep, vars, Deploy, Start, UserBegin, Begin, Deliver,
                WorkerBegin, WorkerRefused, Commit, Mark, Ack, Crash, BecomeDue, CancelTimer,
                RescheduleTimer, SchedulerStamp, SchedulerRollback
  <2>2. timer'[t].status = "enqueued" /\ timer[t].status = "pending"
    BY <2>1, TimerStep DEF Sent, Kept, Fresh, Edge
  <2>3. CASE SchedulerStamp
    <3>1. timer[t] \in TimerRow /\ t \notin batch
      BY DEF TInv, TypeOK, Sent
    <3>2. timer'[t] = timer[t]
      BY <2>3, <3>1 DEF SchedulerStamp
    <3>3. QED
      BY <2>2, <3>2
  <2>4. CASE ~SchedulerStamp
    <3>1. timer'[t].status # "enqueued"
      BY <1>2, <2>2, <2>4, NotStamped
    <3>2. QED
      BY <2>2, <3>1
  <2>5. QED
    BY <2>3, <2>4
<1>3. QED
  BY <1>1, <1>2

LEMMA SentNext ==
  ASSUME TInv, CaseInv, ReachInv, [Next]_vars
  PROVE  SentOK'
<1> SUFFICES ASSUME NEW t \in Timer, Sent(t)', Ripe(t)'
             PROVE  t \in queue'
  BY DEF SentOK
<1>1. CASE ~Sent(t)
  BY <1>1, SentStep
<1>2. CASE Sent(t)
  <2>1. HasRow(t)
    BY <1>2 DEF Sent, TInv, RefsOK, HasRow
  <2>2. Ripe(t)
    BY <2>1, RipeStep DEF ReachInv
  <2>3. t \in queue
    BY <1>2, <2>2 DEF ReachInv, SentOK
  <2>4. QED
    BY <2>2, <2>3, QueueStep DEF ReachInv, FinishedOK
<1>3. QED
  BY <1>1, <1>2

\* A worker finishes with a timer by moving its case or by being refused.
LEMMA FinishStep ==
  ASSUME TInv, [Next]_vars, NEW w \in Worker, pc'[w] \in {"mark", "ack"}
  PROVE  \/ pc[w] \in {"mark", "ack"} /\ tx'[w] = tx[w]
         \/ WorkerRefused(w)
         \/ Commit(w)
<1>0. tx \in [Caller -> Transaction] /\ pc \in [Caller -> {"idle", "begin", "open", "mark", "ack"}]
  BY DEF TInv, TypeOK
<1>1. CASE \E u \in User : UserBegin(u) \/ Commit(u)
  BY <1>0, <1>1, CallerAssumption DEF UserBegin, Begin, Commit, Caller
<1>2. CASE \E v \in Worker : WorkerStep(v)
  <2>1. PICK v \in Worker : WorkerStep(v)
    BY <1>2
  <2>2. CASE v # w
    <3>1. pc'[w] = pc[w] /\ tx'[w] = tx[w]
      BY <1>0, <2>1, <2>2 DEF WorkerStep, Deliver, WorkerBegin, Begin, WorkerRefused,
                              Commit, Mark, Ack, Caller
    <3>2. QED
      BY <3>1
  <2>3. CASE v = w
    BY <1>0, <2>1, <2>3 DEF WorkerStep, Deliver, WorkerBegin, Begin, Mark, Ack, Caller
  <2>4. QED
    BY <2>2, <2>3
<1>3. CASE \E c \in Caller : Crash(c)
  BY <1>0, <1>3 DEF Crash, Caller
<1>4. CASE \/ Deploy \/ \E i \in Instance : Start(i)
           \/ \E t \in Timer : BecomeDue(t) \/ CancelTimer(t) \/ RescheduleTimer(t)
           \/ SchedulerSend \/ SchedulerStamp \/ SchedulerRollback \/ UNCHANGED vars
  BY <1>4 DEF Deploy, Start, BecomeDue, CancelTimer, RescheduleTimer,
              SchedulerSend, SchedulerStamp, SchedulerRollback, vars
<1>5. QED
  BY <1>1, <1>2, <1>3, <1>4 DEF Next

LEMMA FinishedNext ==
  ASSUME TInv, CaseInv, ReachInv, [Next]_vars
  PROVE  FinishedOK'
<1> SUFFICES ASSUME NEW w \in Worker, pc'[w] \in {"mark", "ack"}, Ripe(tx[w].src)'
             PROVE  FALSE
  BY DEF FinishedOK
<1>0. tx \in [Caller -> Transaction] /\ w \in Caller
  BY DEF TInv, TypeOK, Caller
<1>1. CASE pc[w] \in {"mark", "ack"} /\ tx'[w] = tx[w]
  <2>1. PICK t \in Timer : t = tx[w].src /\ HasRow(t)
    BY <1>1 DEF TInv, RefsOK
  <2>2. Ripe(t)'
    BY <1>1, <2>1 DEF Ripe, HasRow, TimerTransitions
  <2>3. QED
    BY <1>1, <2>1, <2>2, RipeStep DEF ReachInv, FinishedOK
<1>2. CASE WorkerRefused(w)
  <2>1. PICK t \in Timer : t = tx[w].src /\ HasRow(t)
    BY <1>2 DEF WorkerRefused, TInv, RefsOK
  <2>2. Ripe(t)'
    BY <1>2, <2>1 DEF WorkerRefused, Ripe, HasRow, TimerTransitions
  <2>3. Ripe(t)
    BY <2>1, <2>2, RipeStep DEF ReachInv
  <2>4. QED
    BY <1>2, <2>1, <2>3 DEF WorkerRefused, Ripe, Admits
<1>3. CASE Commit(w)
  <2>1. PICK t \in Timer : t = tx[w].src /\ HasRow(t)
    BY <1>3 DEF Commit, TInv, RefsOK
  <2>2. PICK i \in Instance : i = tx[w].inst
    BY <1>0, <1>3, CommitFacts
  <2>3. i = timer[t].inst
    BY <1>0, <1>3, <2>1, <2>2 DEF Commit, ReachInv, AskedOK
  <2>4. tx'[w].src = t
    <3> DEFINE rest == [NoTx EXCEPT !.src = tx[w].src]
    <3>1. tx' = [tx EXCEPT ![w] = rest] /\ rest.src = t
      BY <1>3, <2>1 DEF Commit, NoTx
    <3> HIDE DEF rest
    <3>2. QED
      BY <1>0, <3>1
  <2>5. Ripe(t)'
    BY <2>4 DEF Ripe, HasRow, TimerTransitions
  <2>6. Ripe(t)
    BY <2>1, <2>5, RipeStep DEF ReachInv
  <2>7. Len(hist[i]) = timer[t].born
    BY <2>3, <2>6 DEF Ripe
  <2>8. timer'[t].inst = i /\ timer'[t].born = timer[t].born
    BY <2>1, <2>3, TimerStep DEF Fresh, HasRow, Kept, SameTimer
  <2>9. Len(hist'[i]) = timer[t].born
    BY <2>8, <2>5 DEF Ripe
  <2>10. Len(hist'[i]) = Len(hist[i]) + 1
    <3>1. hist \in [Instance -> Seq(HistRow)]
      BY DEF TInv, TypeOK
    <3>2. \E row : hist' = [hist EXCEPT ![i] = Append(@, row)]
      BY <1>3, <2>2 DEF Commit
    <3>3. QED
      BY <3>1, <3>2
  <2>11. Len(hist[i]) \in Nat
    BY DEF TInv, TypeOK
  <2>12. QED
    BY <2>7, <2>9, <2>10, <2>11
<1>4. QED
  BY <1>1, <1>2, <1>3, FinishStep

LEMMA ReachInvariant == Spec => [](TInv /\ CaseInv /\ ReachInv)
<1>1. Init => ReachInv
  BY CallerAssumption DEF Init, ReachInv, BornOK, AskedOK, SentOK, FinishedOK, Sent, HasRow, NoRow,
                          Caller
<1>2. TInv /\ CaseInv /\ ReachInv /\ [Next]_vars => ReachInv'
  BY BornNext, AskedNext, SentNext, FinishedNext DEF ReachInv
<1>3. QED
  BY <1>1, <1>2, CaseInvariant, PTL DEF Spec

\* Every overdue timer is one the next scheduler run selects or one a worker can
\* still be given.
OverdueIsInReach == \A t \in Timer : Overdue(t) => t \in Due \cup queue

\* WF-8, the part that is safety: early delivery, redelivery, rolled-back sends
\* and crashed workers never leave an overdue timer that nobody will look at.
THEOREM OverdueAlwaysInReach == Spec => []OverdueIsInReach
<1>1. TInv /\ CaseInv /\ ReachInv => OverdueIsInReach
  <2> SUFFICES ASSUME TInv, CaseInv, ReachInv, NEW t \in Timer, Overdue(t), t \notin Due
               PROVE  t \in queue
    BY DEF OverdueIsInReach
  <2>1. timer[t] \in TimerRow
    BY DEF TInv, TypeOK
  <2>2. timer[t].status \in {"enqueued", "executed"}
    BY <2>1 DEF Overdue, Due, TimerRow, TimerStatus
  <2>3. Ripe(t)
    BY <2>2 DEF Overdue, Ripe, HasRow
  <2>4. QED
    BY <2>2, <2>3 DEF ReachInv, SentOK, Sent
<1>2. QED
  BY <1>1, ReachInvariant, PTL
=============================================================================
