------------------------------ MODULE TaskEngine ------------------------------
(***************************************************************************)
(* Tasks with dependencies on other tasks of their case and on gates.      *)
(* Sources: trpc/src/lib/tasks.ts (raiseTaskList, completeTask, cancelTask,*)
(* openGate, satisfyAndUnlock), domain/src/tasks/status.ts and             *)
(* dependency-graph.ts.                                                    *)
(*                                                                         *)
(* Each operation is one transaction at READ COMMITTED, split where its    *)
(* statements are: every statement sees what is committed when it runs.    *)
(* requireTask locks a row exclusively (FOR UPDATE); inserting an edge     *)
(* takes a shared lock on the task it depends on (its foreign key).  Rows  *)
(* stay locked until the transaction ends.                                 *)
(*                                                                         *)
(* One case.  What a task waits on (Needs) and the list that raises it     *)
(* (ListOf) are its specification.  Who may complete a task, claims and    *)
(* due dates are left out; the chase that raising schedules and finishing  *)
(* cancels is the subject of ReminderSeries.                               *)
(***************************************************************************)
EXTENDS Naturals

CONSTANTS Task, Gate, List,
          ListOf,    \* Task -> the list that raises it
          Needs,     \* Task -> the tasks and gates it waits on
          Actor,     \* connections: a request or an effect handler each
          Nothing

Blocker == Task \cup Gate

ASSUME SpecAssumption == /\ ListOf \in [Task -> List]
                         /\ Needs \in [Task -> SUBSET Blocker]
                         /\ \A t \in Task : t \notin Needs[t]
                         /\ Task \cap Gate = {} /\ List \cap Blocker = {}
ASSUME NothingAssumption == Nothing \notin Blocker \cup List

VARIABLES
  \* committed rows
  status,      \* Task -> its status, "none" before it is raised
  satisfied,   \* edges <<task, blocker>> with satisfied_at set
  gates,       \* gates with a platform.task.gate.opened event
  unblocks,    \* Task -> number of platform.task.unblocked events
  \* open transactions
  pc,          \* Actor -> its next statement
  op,          \* Actor -> what it is doing
  on,          \* Actor -> the blocker it satisfies or the list it raises
  reads,       \* Actor -> what its last reads returned: tasks, or known blockers
  done,        \* Actor -> tasks it has written: opened, or inserted
  waits,       \* Actor -> unsatisfied edges it inserted
  edges,       \* Actor -> edges it stamped
  locked,      \* Actor -> rows it holds exclusively
  shared,      \* Actor -> rows it holds a key-share lock on
  \* history
  overlapped   \* two transactions have been open at once

rows == <<status, satisfied, gates, unblocks>>
vars == <<rows, pc, op, on, reads, done, waits, edges, locked, shared, overlapped>>

Open == { a \in Actor : pc[a] # "idle" }

Init ==
  /\ status = [t \in Task |-> "none"]
  /\ satisfied = {} /\ gates = {}
  /\ unblocks = [t \in Task |-> 0]
  /\ pc = [a \in Actor |-> "idle"]
  /\ op = [a \in Actor |-> "none"]
  /\ on = [a \in Actor |-> Nothing]
  /\ reads = [a \in Actor |-> {}]
  /\ done = [a \in Actor |-> {}]
  /\ waits = [a \in Actor |-> {}]
  /\ edges = [a \in Actor |-> {}]
  /\ locked = [a \in Actor |-> {}]
  /\ shared = [a \in Actor |-> {}]
  /\ overlapped = FALSE

Raised == { t \in Task : status[t] # "none" }
TasksOf(l) == { t \in Task : ListOf[t] = l }
Siblings(t) == { u \in Needs[t] \cap Task : ListOf[u] = ListOf[t] }
Existing(t) == (Needs[t] \cap Task) \ Siblings(t)
Waiting(t)  == { b \in Needs[t] : <<t, b>> \notin satisfied }

\* The row lock can be had: exclusively, or as a key share.
Lockable(a, t) == \A b \in Actor \ {a} : t \notin locked[b] \cup shared[b]

Shareable(a, t) == \A b \in Actor \ {a} : t \notin locked[b]

\* The transaction ends: its locks are released and its reads forgotten.
End(a) ==
  /\ pc' = [pc EXCEPT ![a] = "idle"]
  /\ op' = [op EXCEPT ![a] = "none"]
  /\ on' = [on EXCEPT ![a] = Nothing]
  /\ reads' = [reads EXCEPT ![a] = {}]
  /\ done' = [done EXCEPT ![a] = {}]
  /\ waits' = [waits EXCEPT ![a] = {}]
  /\ edges' = [edges EXCEPT ![a] = {}]
  /\ locked' = [locked EXCEPT ![a] = {}]
  /\ shared' = [shared EXCEPT ![a] = {}]

Begin(a, what, b, next) ==
  /\ pc[a] = "idle"
  /\ pc' = [pc EXCEPT ![a] = next]
  /\ op' = [op EXCEPT ![a] = what]
  /\ on' = [on EXCEPT ![a] = b]
-----------------------------------------------------------------------------
\* nextTaskStatus: a blocked task cannot be completed, a finished one nothing.
Allowed(what) == IF what = "complete" THEN {"open"} ELSE {"blocked", "open"}

Leads(what) == IF what = "complete" THEN "done" ELSE "cancelled"

\* completeTask, cancelTask: requireTask, the guard and the status write.
BeginFinish(a, t, what) ==
  /\ Begin(a, what, t, "match")
  /\ Lockable(a, t)
  /\ status[t] \in Allowed(what)
  /\ locked' = [locked EXCEPT ![a] = {t}]
  /\ UNCHANGED <<rows, reads, done, waits, edges, shared>>

BeginGate(a, g) ==
  /\ Begin(a, "gate", g, "match")
  /\ UNCHANGED <<rows, reads, done, waits, edges, locked, shared>>

\* Mutant: a cancelled task satisfies nothing.
MatchUnlessCancelled(a) ==
  /\ pc[a] = "match"
  /\ LET found == IF op[a] = "cancel" THEN {} ELSE { t \in Raised : on[a] \in Waiting(t) }
     IN /\ reads' = [reads EXCEPT ![a] = found]
        /\ pc' = [pc EXCEPT ![a] = IF found = {} THEN "commit" ELSE "evaluate"]
  /\ UNCHANGED <<rows, op, on, done, waits, edges, locked, shared>>

\* satisfyAndUnlock 1: the unsatisfied edges waiting on this blocker.
Match(a) ==
  /\ pc[a] = "match"
  /\ LET found == { t \in Raised : on[a] \in Waiting(t) }
     IN /\ reads' = [reads EXCEPT ![a] = found]
        /\ pc' = [pc EXCEPT ![a] = IF found = {} THEN "commit" ELSE "evaluate"]
  /\ UNCHANGED <<rows, op, on, done, waits, edges, locked, shared>>

\* Mutant: the task's other edges are not looked at.
UnlocksAll(ts, b) == ts

\* Mutant: the edge just satisfied still counts, as it is stamped only later.
UnlocksNone(ts, b) == { t \in ts : Waiting(t) = {} }

\* evaluateUnlocks: of the tasks that waited on b, those nothing else holds up.
Unlocks(ts, b) == { t \in ts : Waiting(t) \subseteq {b} }

\* satisfyAndUnlock 2: every edge of those tasks, read before stamping.
Evaluate(a) ==
  /\ pc[a] = "evaluate"
  /\ reads' = [reads EXCEPT ![a] = Unlocks(reads[a], on[a])]
  /\ edges' = [edges EXCEPT ![a] = { <<t, on[a]>> : t \in reads[a] }]
  /\ pc' = [pc EXCEPT ![a] = "stamp"]
  /\ UNCHANGED <<rows, op, on, done, waits, locked, shared>>

\* satisfyAndUnlock 3: the update waits for whoever has stamped the same edges.
Stamp(a) ==
  /\ pc[a] = "stamp"
  /\ \A b \in Actor \ {a} : pc[b] \in {"unlock", "commit"} => edges[b] \cap edges[a] = {}
  /\ pc' = [pc EXCEPT ![a] = "unlock"]
  /\ UNCHANGED <<rows, op, on, reads, done, waits, edges, locked, shared>>

\* Mutant: a candidate is opened whatever has become of it.
UnlockAnything(a) ==
  /\ pc[a] = "unlock"
  /\ \E t \in reads[a] :
       /\ Lockable(a, t)
       /\ locked' = [locked EXCEPT ![a] = @ \cup {t}]
       /\ reads' = [reads EXCEPT ![a] = @ \ {t}]
       /\ done' = [done EXCEPT ![a] = @ \cup {t}]
  /\ UNCHANGED <<rows, pc, op, on, waits, edges, shared>>

\* satisfyAndUnlock 4: lock a candidate and open it if it is still blocked.
Unlock(a) ==
  /\ pc[a] = "unlock"
  /\ \E t \in reads[a] :
       /\ Lockable(a, t)
       /\ locked' = [locked EXCEPT ![a] = @ \cup {t}]
       /\ reads' = [reads EXCEPT ![a] = @ \ {t}]
       /\ done' = [done EXCEPT ![a] = IF status[t] = "blocked" THEN @ \cup {t} ELSE @]
  /\ UNCHANGED <<rows, pc, op, on, waits, edges, shared>>

\* The rest of completeTask, cancelTask or openGate, and the commit.
CommitFinish(a) ==
  /\ \/ pc[a] = "commit"
     \/ pc[a] = "unlock" /\ reads[a] = {}
  /\ status' = [t \in Task |-> IF t = on[a]
                                 THEN Leads(op[a])
                                 ELSE IF t \in done[a] THEN "open" ELSE status[t]]
  /\ satisfied' = satisfied \cup edges[a]
  /\ gates' = IF op[a] = "gate" THEN gates \cup {on[a]} ELSE gates
  /\ unblocks' = [t \in Task |-> IF t \in done[a] THEN unblocks[t] + 1 ELSE unblocks[t]]
  /\ End(a)
-----------------------------------------------------------------------------
\* Mutant: the graph is not checked.
AnyGraph(ts) == TRUE

\* assertAcyclic: no set of tasks each of which waits on another of the set.
Acyclic(ts) == ~ \E S \in (SUBSET ts) \ {{}} : \A t \in S : Needs[t] \cap S # {}

\* Raising a list: a list is raised once (consumption ledger), the existing tasks
\* it names are in the case, the graph is legal, and the open gates are read.
BeginRaise(a, l) ==
  /\ Begin(a, "raise", l, "insert")
  /\ TasksOf(l) # {} /\ TasksOf(l) \cap Raised = {}
  /\ \A b \in Actor : on[b] # l
  /\ \A t \in TasksOf(l) : Existing(t) \subseteq Raised
  /\ Acyclic(Raised \cup TasksOf(l))
  /\ reads' = [reads EXCEPT ![a] = gates]
  /\ UNCHANGED <<rows, done, waits, edges, locked, shared>>

\* Mutant: finished tasks count.
AllExisting(t) == Existing(t)

\* unfinishedAmong, for the next task of the list.
Unfinished(t) == { u \in Existing(t) : status[u] \in {"blocked", "open"} }

ReadBlockers(a, t) ==
  /\ pc[a] = "insert"
  /\ t \in TasksOf(on[a]) \ done[a]
  /\ waits' = [waits EXCEPT ![a] = @ \cup
                 ({t} \X (Siblings(t) \cup Unfinished(t) \cup ((Needs[t] \cap Gate) \ reads[a])))]
  /\ edges' = [edges EXCEPT ![a] = @ \cup ({t} \X Needs[t])]
  /\ done' = [done EXCEPT ![a] = @ \cup {t}]
  /\ pc' = [pc EXCEPT ![a] = "edges"]
  /\ UNCHANGED <<rows, op, on, reads, locked, shared>>

\* The task and its edges are inserted; their foreign keys wait for whoever is
\* completing or cancelling a task they depend on.
InsertTask(a) ==
  LET deps == UNION { Existing(t) : t \in done[a] } IN
  /\ pc[a] = "edges"
  /\ \A u \in deps : Shareable(a, u)
  /\ shared' = [shared EXCEPT ![a] = deps]
  /\ pc' = [pc EXCEPT ![a] = IF done[a] = TasksOf(on[a]) THEN "raised" ELSE "insert"]
  /\ UNCHANGED <<rows, op, on, reads, done, waits, edges, locked>>

CommitRaise(a) ==
  /\ pc[a] = "raised"
  /\ status' = [t \in Task |-> IF t \notin done[a] THEN status[t]
                               ELSE IF \E b \in Blocker : <<t, b>> \in waits[a]
                               THEN "blocked" ELSE "open"]
  /\ satisfied' = satisfied \cup (edges[a] \ waits[a])
  /\ UNCHANGED <<gates, unblocks>>
  /\ End(a)
-----------------------------------------------------------------------------
\* An error, a lost connection, or the victim of a deadlock: rolled back.
Abort(a) ==
  /\ pc[a] # "idle"
  /\ UNCHANGED rows
  /\ End(a)

Satisfying(a) == Match(a) \/ Evaluate(a) \/ Stamp(a) \/ Unlock(a) \/ CommitFinish(a)

Raising(a) == (\E t \in Task : ReadBlockers(a, t)) \/ InsertTask(a) \/ CommitRaise(a)

Beginning(a) ==
  \/ \E t \in Task : BeginFinish(a, t, "complete") \/ BeginFinish(a, t, "cancel")
  \/ \E g \in Gate : BeginGate(a, g)
  \/ \E l \in List : BeginRaise(a, l)

Next ==
  /\ \E a \in Actor : Beginning(a) \/ Satisfying(a) \/ Raising(a) \/ Abort(a)
  /\ overlapped' = (overlapped \/ \E a, b \in Open' : a # b)

Spec == Init /\ [][Next]_vars
-----------------------------------------------------------------------------
\* Type invariant of the task tables and the open transactions.
TypeOK ==
  /\ status \in [Task -> {"none", "blocked", "open", "done", "cancelled"}]
  /\ satisfied \subseteq Task \X Blocker
  /\ gates \subseteq Gate
  /\ unblocks \in [Task -> Nat]
  /\ pc \in [Actor -> {"idle", "match", "evaluate", "stamp", "unlock", "commit",
                       "insert", "edges", "raised"}]
  /\ op \in [Actor -> {"none", "complete", "cancel", "gate", "raise"}]
  /\ on \in [Actor -> Blocker \cup List \cup {Nothing}]
  /\ reads \in [Actor -> SUBSET Blocker]
  /\ done \in [Actor -> SUBSET Task]
  /\ waits \in [Actor -> SUBSET (Task \X Blocker)]
  /\ edges \in [Actor -> SUBSET (Task \X Blocker)]
  /\ locked \in [Actor -> SUBSET Task]
  /\ shared \in [Actor -> SUBSET Task]

\* status.ts: "A blocked task cannot be completed ... the guard is the only door".
\* Whoever finishes, cancels or raises at the same time, a task is open or done
\* only when nothing holds it up any more: every blocker of it is finished or
\* opened, and its edges say so.
OpenMeansFree ==
  \A t \in Task : status[t] \in {"open", "done"} =>
    /\ Waiting(t) = {}
    /\ \A b \in Needs[t] : b \in gates \/ (b \in Task /\ status[b] \in {"done", "cancelled"})

\* status.ts: done and cancelled are terminal, and a task cancelled while its
\* prerequisite finishes in another transaction is not resurrected.
StatusMachine ==
  [][\A t \in Task :
       <<status[t], status'[t]>> \in
         {<<"none", "blocked">>, <<"none", "open">>, <<"blocked", "open">>,
          <<"blocked", "cancelled">>, <<"open", "done">>, <<"open", "cancelled">>}
       \/ status'[t] = status[t]]_vars

\* evaluateUnlocks: no "second platform.task.unblocked event in the trail for a
\* fact that happened once", also when one gate is opened by two effects at once.
UnblockedOnce == \A t \in Task : unblocks[t] <= 1

\* status.ts: "blocked --(all dependencies satisfied, automatic)--> open".
SatisfiedTasksOpen ==
  \A t \in Task : status[t] = "blocked" => Waiting(t) # {}

\* raiseTaskList: an edge never waits on a gate that has opened ("would sit
\* blocked on a gate that will never open again") or on finished work.
NothingWaitsOnThePast ==
  \A t \in Raised : \A b \in Waiting(t) :
    status[t] # "cancelled" =>
      b \notin gates /\ (b \in Task => status[b] \in {"blocked", "open"})

\* assertAcyclic: with every gate opened there is always something to work on.
SomethingCanStart ==
  (gates = Gate /\ \E t \in Task : status[t] = "blocked") => \E t \in Task : status[t] = "open"

Board == INSTANCE TaskBoard
-----------------------------------------------------------------------------
(***************************************************************************)
(* What the engine keeps as long as its transactions come one at a time is *)
(* asked until two have been open at once.                                 *)
(***************************************************************************)
\* status.ts: "blocked --(all dependencies satisfied, automatic)--> open": one
\* transaction at a time, no task is left blocked with nothing to wait for.
InTurnTasksOpen == ~overlapped => SatisfiedTasksOpen

\* raiseTaskList: one transaction at a time, no edge waits on a gate that has
\* opened or on work that is over.
InTurnNothingWaitsOnThePast == ~overlapped => NothingWaitsOnThePast

\* assertAcyclic: one transaction at a time, with every gate opened there is
\* something to work on.
InTurnSomethingCanStart == ~overlapped => SomethingCanStart

\* As long as its transactions come one at a time, every step of the engine is a
\* step of TaskBoard: from the moment a task is raised it is open exactly when
\* everything it waits on is over.
InTurnImplementsTaskBoard ==
  /\ Board!Init
  /\ [][overlapped' \/ Board!Next]_<<status, gates>>
=============================================================================
