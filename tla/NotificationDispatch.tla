------------------------- MODULE NotificationDispatch -------------------------
(***************************************************************************)
(* One notification from its dispatch effect to the end of its last        *)
(* delivery (trpc/src/lib/notify-effects.ts).  Handlers of the effects     *)
(* queue run notification.dispatch and notification.retry as several       *)
(* statements and transactions; between any two of them the process may    *)
(* die or its message lock expire, and the message is handed out again.    *)
(* The recipients are resolved anew by every dispatch.                     *)
(*                                                                         *)
(* A delivery is a person; channels are alike but for what suppresses      *)
(* them, which is any choice.  A send lands or not.  The backoff is left   *)
(* out: a pending timer may be due at any moment.                          *)
(* Bounds: MaxTimers retry timers; MaxFaults crashes and expired locks,    *)
(* below the broker's delivery count.                                      *)
(***************************************************************************)
EXTENDS Integers, FiniteSets

CONSTANTS Person, Consumer, MaxAttempts, MaxTimers, MaxFaults

ASSUME NoticeAssumption ==
  /\ Consumer \cap {"none", "ready", "done"} = {}
  /\ MaxAttempts \in Nat \ {0}
  /\ {MaxTimers, MaxFaults} \subseteq Nat

Dispatch == 0                      \* the message of notification.dispatch
Timer    == 1 .. MaxTimers         \* a scheduled_action, and its message
Effect   == {Dispatch} \cup Timer
NoMessage == MaxTimers + 1

VARIABLES
  notification,  \* its status
  status,        \* Person -> status of the delivery row, "none" before it exists
  count,         \* Person -> attempt_count
  timer,         \* Timer -> status of the scheduled_action
  msg,           \* Effect -> on the queue, the consumer that holds its lock, ...
  doing,         \* Consumer -> the message it handles
  step,          \* Consumer -> how far its handler is
  todo,          \* Consumer -> recipients resolved, then deliveries still to attempt
  hand,          \* Consumer -> the delivery sent and not yet written, if any
  seen,          \* Consumer -> attempt_count of those, as it read them
  bad,           \* Consumer -> whether an attempt of its failed
  \* history
  landed,        \* Person -> sends that reached the provider, but for those whose
                 \* handler died before it could record them
  announced,     \* sent and unresolved events appended
  deaths,        \* Person -> delivery_failed events appended
  dropped,       \* whether a retry was given up by one of the causes Drops names
  crashes, overlaps

rows       == <<notification, status, count>>
retries    == <<timer, msg>>
handler    == <<doing, step, todo, hand, seen, bad>>
history    == <<landed, announced, deaths, dropped>>
faults     == <<crashes, overlaps>>
noticeVars == <<rows, retries, handler, history, faults>>

Status == {"none", "pending", "sent", "failed", "suppressed", "dead"}

Stage == {"idle", "resolved", "select", "attempt", "landed", "bounced", "complete"}

\* Mutant: a delivery already sent is attempted again.
NotDead == { p \in Person : status[p] \in {"pending", "failed", "sent"} }

\* WHERE status IN ('pending', 'failed').
Outstanding == { p \in Person : status[p] \in {"pending", "failed"} }

Zero == [p \in Person |-> 0]

Retrying(w) == doing[w] \in Timer
-----------------------------------------------------------------------------
NoticeInit ==
  /\ notification = "pending"
  /\ status = [p \in Person |-> "none"]
  /\ count = Zero
  /\ timer = [i \in Timer |-> "none"]
  /\ msg = [i \in Effect |-> IF i = Dispatch THEN "ready" ELSE "none"]
  /\ doing = [w \in Consumer |-> NoMessage]
  /\ step = [w \in Consumer |-> "idle"]
  /\ todo = [w \in Consumer |-> {}]
  /\ hand = [w \in Consumer |-> {}]
  /\ seen = [w \in Consumer |-> Zero]
  /\ bad = [w \in Consumer |-> FALSE]
  /\ landed = Zero /\ deaths = Zero
  /\ announced = 0 /\ dropped = FALSE
  /\ crashes = 0 /\ overlaps = 0

Goto(w, s) == step' = [step EXCEPT ![w] = s]

\* A consumer takes up a message, and runs its handler to the first statement.
TakeUp(w, i) ==
  /\ step[w] = "idle"
  /\ msg[i] = "ready"
  /\ msg' = [msg EXCEPT ![i] = w]
  /\ doing' = [doing EXCEPT ![w] = i]

\* Mutant: a dispatched notification is dispatched again.
NeverDispatched == FALSE

AlreadyDispatched == notification # "pending"

\* notification.dispatch of a notification already dispatched does nothing.
Skip(w) ==
  /\ TakeUp(w, Dispatch)
  /\ AlreadyDispatched
  /\ Goto(w, "complete")
  /\ UNCHANGED <<rows, timer, todo, hand, seen, bad, history, faults>>

\* resolveRecipients: whoever the roles, teams and policies name just now.
Resolve(w) ==
  /\ TakeUp(w, Dispatch)
  /\ ~AlreadyDispatched
  /\ \E who \in SUBSET Person : todo' = [todo EXCEPT ![w] = who]
  /\ Goto(w, "resolved")
  /\ UNCHANGED <<rows, timer, hand, seen, bad, history, faults>>

\* Nobody: dispatched, with an unresolved event.  Rows an earlier, interrupted
\* dispatch recorded are left as they are.
Unresolved(w) ==
  /\ step[w] = "resolved" /\ todo[w] = {}
  /\ notification' = "dispatched"
  /\ announced' = announced + 1
  /\ dropped' = (dropped \/ Outstanding # {})
  /\ Goto(w, "complete")
  /\ UNCHANGED <<status, count, retries, doing, todo, hand, seen, bad, landed, deaths, faults>>

\* A row per recipient, unless it exists; some are suppressed by configuration.
Record(w) ==
  /\ step[w] = "resolved" /\ todo[w] # {}
  /\ \E off \in SUBSET todo[w] :
       status' = [p \in Person |->
                    IF p \in todo[w] /\ status[p] = "none"
                      THEN IF p \in off THEN "suppressed" ELSE "pending"
                      ELSE status[p]]
  /\ todo' = [todo EXCEPT ![w] = {}]
  /\ Goto(w, "select")
  /\ UNCHANGED <<notification, count, retries, doing, hand, seen, bad, history, faults>>

\* markScheduledActionExecuted, committed on its own.  It claims an enqueued
\* timer only; one whose message came before its stamp is thereby dropped.
ClaimRetry(w, i) ==
  /\ TakeUp(w, i)
  /\ \/ /\ timer[i] = "enqueued"
        /\ timer' = [timer EXCEPT ![i] = "executed"]
        /\ Goto(w, "select")
        /\ UNCHANGED dropped
     \/ /\ timer[i] # "enqueued"
        /\ dropped' = (dropped \/ timer[i] = "pending")
        /\ Goto(w, "complete")
        /\ UNCHANGED timer
  /\ UNCHANGED <<rows, todo, hand, seen, bad, landed, announced, deaths, faults>>

\* The deliveries to attempt, read once.
Select(w) ==
  /\ step[w] = "select"
  /\ todo' = [todo EXCEPT ![w] = Outstanding]
  /\ seen' = [seen EXCEPT ![w] = [p \in Person |-> IF p \in Outstanding THEN count[p] ELSE 0]]
  /\ Goto(w, "attempt")
  /\ UNCHANGED <<rows, retries, doing, hand, bad, history, faults>>

\* Mutant: one attempt more.
OutOfAttemptsLate(w, p) == Retrying(w) /\ seen[w][p] > MaxAttempts

\* Only the retry gives up.
OutOfAttempts(w, p) == Retrying(w) /\ seen[w][p] >= MaxAttempts
-----------------------------------------------------------------------------
\* attemptDelivery: the adapter answers ...
Attempt(w, p) ==
  /\ step[w] = "attempt" /\ p \in todo[w] /\ ~OutOfAttempts(w, p)
  /\ todo' = [todo EXCEPT ![w] = @ \ {p}]
  /\ hand' = [hand EXCEPT ![w] = {p}]
  /\ \/ landed' = [landed EXCEPT ![p] = @ + 1] /\ Goto(w, "landed")
     \/ UNCHANGED landed /\ Goto(w, "bounced")
  /\ UNCHANGED <<rows, retries, doing, seen, bad, announced, deaths, dropped, faults>>

\* ... and the row takes the answer, whatever it says by now.
Write(w) ==
  /\ step[w] \in {"landed", "bounced"}
  /\ status' = [p \in Person |-> IF p \notin hand[w] THEN status[p]
                                 ELSE IF step[w] = "landed" THEN "sent" ELSE "failed"]
  /\ count' = [p \in Person |-> IF p \notin hand[w] THEN count[p] ELSE seen[w][p] + 1]
  /\ bad' = [bad EXCEPT ![w] = @ \/ step[w] = "bounced"]
  /\ hand' = [hand EXCEPT ![w] = {}]
  /\ Goto(w, "attempt")
  /\ UNCHANGED <<notification, retries, doing, todo, seen, history, faults>>

\* A delivery out of attempts is dead, and says so, if still pending or failed.
GiveUp(w, p) ==
  /\ step[w] = "attempt" /\ p \in todo[w] /\ OutOfAttempts(w, p)
  /\ todo' = [todo EXCEPT ![w] = @ \ {p}]
  /\ IF p \in Outstanding
       THEN /\ status' = [status EXCEPT ![p] = "dead"]
            /\ deaths' = [deaths EXCEPT ![p] = @ + 1]
       ELSE UNCHANGED <<status, deaths>>
  /\ UNCHANGED <<notification, count, retries, doing, step, hand, seen, bad,
                 landed, announced, dropped, faults>>

\* Mutant: the retry is forgotten when it was the retry that failed.
RetryNotAgain(w) == bad[w] /\ ~Retrying(w)

NeedsRetry(w) == bad[w]

FirstFree(i) == timer[i] = "none" /\ \A j \in Timer : j < i => timer[j] # "none"

\* scheduleRetry.
ScheduleRetry(w) ==
  IF NeedsRetry(w)
    THEN \E i \in Timer : FirstFree(i) /\ timer' = [timer EXCEPT ![i] = "pending"]
    ELSE UNCHANGED timer

\* The last transaction of either handler.
Finish(w) ==
  /\ step[w] = "attempt" /\ todo[w] = {}
  /\ IF Retrying(w)
       THEN UNCHANGED <<notification, announced>>
       ELSE notification' = "dispatched" /\ announced' = announced + 1
  /\ ScheduleRetry(w)
  /\ Goto(w, "complete")
  /\ UNCHANGED <<status, count, msg, doing, todo, hand, seen, bad,
                 landed, deaths, dropped, faults>>

Leave(w) ==
  /\ doing' = [doing EXCEPT ![w] = NoMessage]
  /\ Goto(w, "idle")
  /\ todo' = [todo EXCEPT ![w] = {}]
  /\ hand' = [hand EXCEPT ![w] = {}]
  /\ seen' = [seen EXCEPT ![w] = Zero]
  /\ bad' = [bad EXCEPT ![w] = FALSE]

\* The message is settled by the consumer that still holds its lock.
Settle(w) ==
  /\ step[w] = "complete"
  /\ msg' = [i \in Effect |-> IF msg[i] = w THEN "done" ELSE msg[i]]
  /\ Leave(w)
  /\ UNCHANGED <<rows, timer, history, faults>>

\* The handler throws, or its process dies: the message is handed out again, and
\* a claimed timer stays claimed.  Nobody takes up what a retry had left to do,
\* nor a dispatch when another one beside it gets to the end.
Crash(w) ==
  /\ step[w] # "idle"
  /\ crashes + overlaps < MaxFaults
  /\ crashes' = crashes + 1
  /\ msg' = [i \in Effect |-> IF msg[i] = w THEN "ready" ELSE msg[i]]
  /\ landed' = [p \in Person |-> IF step[w] = "landed" /\ p \in hand[w] THEN landed[p] - 1 ELSE landed[p]]
  /\ dropped' = \/ dropped
                \/ /\ step[w] # "complete"
                   /\ Retrying(w) \/ overlaps > 0
  /\ Leave(w)
  /\ UNCHANGED <<rows, timer, announced, deaths, overlaps>>

\* A handler outlives the lock of its message, which is handed out again.
LoseLock(w) ==
  /\ crashes + overlaps < MaxFaults
  /\ \E i \in Effect : msg[i] = w /\ msg' = [msg EXCEPT ![i] = "ready"]
  /\ overlaps' = overlaps + 1
  /\ UNCHANGED <<rows, timer, handler, history, crashes>>

\* The scheduler sends the message of a due timer, and stamps it afterwards.
Enqueue(i) ==
  /\ timer[i] = "pending" /\ msg[i] = "none"
  /\ msg' = [msg EXCEPT ![i] = "ready"]
  /\ UNCHANGED <<rows, timer, handler, history, faults>>

MarkEnqueued(i) ==
  /\ timer[i] = "pending" /\ msg[i] # "none"
  /\ timer' = [timer EXCEPT ![i] = "enqueued"]
  /\ UNCHANGED <<rows, msg, handler, history, faults>>

Start(w) == Skip(w) \/ Resolve(w) \/ \E i \in Timer : ClaimRetry(w, i)

Handle(w) ==
  \/ Unresolved(w) \/ Record(w) \/ Select(w)
  \/ \E p \in Person : Attempt(w, p) \/ GiveUp(w, p)
  \/ Write(w) \/ Finish(w) \/ Settle(w)

Schedule == \E i \in Timer : Enqueue(i) \/ MarkEnqueued(i)

NoticeNext ==
  \/ \E w \in Consumer : Start(w) \/ Handle(w) \/ Crash(w) \/ LoseLock(w)
  \/ Schedule

\* The broker hands out what is ready, handlers run on, the scheduler polls.
NoticeFairness ==
  /\ WF_noticeVars(\E w \in Consumer : Start(w))
  /\ \A w \in Consumer : WF_noticeVars(Handle(w))
  /\ WF_noticeVars(Schedule)

NoticeSpec == NoticeInit /\ [][NoticeNext]_noticeVars /\ NoticeFairness
-----------------------------------------------------------------------------
(***************************************************************************)
(* Properties.                                                             *)
(***************************************************************************)
\* Type invariant.
NoticeTypeOK ==
  /\ notification \in {"pending", "dispatched"}
  /\ status \in [Person -> Status] /\ count \in [Person -> Nat]
  /\ timer \in [Timer -> {"none", "pending", "enqueued", "executed"}]
  /\ msg \in [Effect -> {"none", "ready", "done"} \cup Consumer]
  /\ doing \in [Consumer -> Effect \cup {NoMessage}]
  /\ step \in [Consumer -> Stage]
  /\ todo \in [Consumer -> SUBSET Person] /\ hand \in [Consumer -> SUBSET Person]
  /\ seen \in [Consumer -> [Person -> Nat]]
  /\ bad \in [Consumer -> BOOLEAN]
  /\ landed \in [Person -> Int] /\ deaths \in [Person -> Nat]
  /\ announced \in Nat /\ dropped \in BOOLEAN
  /\ crashes \in 0 .. MaxFaults /\ overlaps \in 0 .. MaxFaults

\* Something will still look at the deliveries: a message of the dispatch while
\* it is needed, a timer not yet claimed, or a handler on its way.
Chased(p) ==
  \/ notification = "pending" /\ msg[Dispatch] # "done"
  \/ \E i \in Timer : timer[i] \in {"pending", "enqueued"}
  \/ \E w \in Consumer : \/ step[w] \in {"select", "bounced"}
                         \/ step[w] \in {"attempt", "landed"} /\ (bad[w] \/ p \in todo[w] \cup hand[w])

\* AC-D4, "a failure that ends in silence is indistinguishable from a message
\* nobody sent": a delivery neither sent, suppressed nor dead is still chased,
\* but for a retry whose handler died after its claim, an overlapped dispatch that
\* died, a retry whose message came before its stamp, and a dispatch that,
\* repeated, resolved to nobody.
FailureNeverSilent == \A p \in Outstanding : Chased(p) \/ dropped

\* Without overlapping handlers no delivery reaches its provider twice, except
\* once more for every handler that died between sending and recording.
SentOnceUncut == overlaps = 0 => \A p \in Person : landed[p] <= 1

\* Without overlapping handlers the notification is announced once, and a death
\* once, only after every attempt.
JournalledOnce ==
  overlaps = 0 => /\ announced = IF notification = "dispatched" THEN 1 ELSE 0
                  /\ \A p \in Person : deaths[p] = IF status[p] = "dead" THEN 1 ELSE 0
                  /\ \A p \in Person : deaths[p] > 0 => count[p] >= MaxAttempts

\* The inbox and the diagnostics read the row: sent, suppressed and dead are
\* final, and without overlapping handlers an outcome is never taken back.
OutcomesFinal ==
  [][overlaps' = 0 => \A p \in Person : status[p] \in {"sent", "suppressed", "dead"} =>
                        status'[p] = status[p] /\ count'[p] = count[p]]_noticeVars

\* Overlapping handlers schedule retries side by side, and can use up the timers
\* of the model.
OutOfTimers == overlaps > 0 /\ \A i \in Timer : timer[i] # "none"

\* Every delivery is sent, suppressed or dead in the end, unless its retry was
\* dropped, or the model has no timer left for it.
EveryDeliverySettles == <>[](Outstanding = {} \/ dropped \/ OutOfTimers)
=============================================================================
