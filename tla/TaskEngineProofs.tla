--------------------------- MODULE TaskEngineProofs ---------------------------
(***************************************************************************)
(* What holds of the task engine for any tasks, lists and connections.     *)
(*                                                                         *)
(* The invariant relates an open transaction to the committed rows: what   *)
(* it has written or will write still stands on what it read, because the  *)
(* rows it locked have not changed and edges are only ever satisfied.      *)
(*                                                                         *)
(* Until two transactions overlap the open one reads all there is to read, *)
(* and TurnInv says more: edges tell exactly what is over, no task that    *)
(* could be worked on is left blocked, and the graph has no cycle.  With   *)
(* it the engine implements TaskBoard.                                     *)
(***************************************************************************)
EXTENDS TaskEngine, TLAPS

Over(b) == b \in gates \/ (b \in Task /\ status[b] \in {"done", "cancelled"})

\* The edge on[x] satisfies is the last that holds t up.
Freed(x, t) == on[x] \in Needs[t] /\ Waiting(t) \subseteq {on[x]} /\ <<t, on[x]>> \in edges[x]

IdleOK(x) ==
  /\ (pc[x] = "idle") <=> (op[x] = "none")
  /\ op[x] = "none" => /\ reads[x] = {} /\ done[x] = {} /\ waits[x] = {}
                       /\ edges[x] = {} /\ locked[x] = {}
  /\ locked[x] \subseteq Raised

FinishOK(x) == op[x] \in {"complete", "cancel", "gate"} =>
  /\ pc[x] \in {"match", "evaluate", "stamp", "unlock", "commit"}
  /\ op[x] = "gate" => on[x] \in Gate
  /\ op[x] # "gate" => on[x] \in Task /\ on[x] \in locked[x] /\ status[on[x]] \in Allowed(op[x])
  /\ \A t \in Task, b \in Blocker : <<t, b>> \in edges[x] => b = on[x]
  /\ reads[x] \subseteq Raised
  /\ pc[x] \in {"match", "evaluate", "stamp", "commit"} => done[x] = {}
  /\ pc[x] = "evaluate" => \A t \in reads[x] : on[x] \in Needs[t]
  /\ pc[x] \in {"stamp", "unlock"} => \A t \in reads[x] : Freed(x, t)
  /\ \A t \in done[x] : Freed(x, t) /\ t \in locked[x] /\ status[t] = "blocked"

RaiseOK(x) == op[x] = "raise" =>
  /\ pc[x] \in {"insert", "edges", "raised"}
  /\ on[x] \in List
  /\ reads[x] \subseteq gates
  /\ done[x] \subseteq TasksOf(on[x])
  /\ \A t \in TasksOf(on[x]) : status[t] = "none" /\ Existing(t) \subseteq Raised
  /\ \A t \in done[x] : \A b \in Needs[t] : <<t, b>> \in edges[x]
  /\ \A t \in Task, b \in Blocker : <<t, b>> \in edges[x] \ waits[x] => Over(b)

TxOK(x) == IdleOK(x) /\ FinishOK(x) /\ RaiseOK(x)

Separate ==
  \A x, y \in Actor : x # y =>
    /\ locked[x] \cap locked[y] = {}
    /\ op[x] = "raise" /\ op[y] = "raise" => on[x] # on[y]

\* The committed rows: an edge is satisfied only by something that is over, a
\* task is worked on only when nothing holds it up, and announced once.
RowsOK ==
  /\ \A t \in Task, b \in Blocker : <<t, b>> \in satisfied => Over(b)
  /\ \A t \in Task : status[t] \in {"open", "done"} => Waiting(t) = {}
  /\ \A t \in Task : unblocks[t] <= 1 /\ (status[t] \in {"none", "blocked"} => unblocks[t] = 0)

IInv == TypeOK /\ (\A x \in Actor : TxOK(x)) /\ Separate /\ RowsOK

THEOREM InitInv == Init => IInv
<1> SUFFICES ASSUME Init PROVE IInv
  OBVIOUS
<1>1. TypeOK
  BY DEF Init, TypeOK
<1>2. \A x \in Actor : TxOK(x)
  BY DEF Init, TxOK, IdleOK, FinishOK, RaiseOK
<1>3. Separate /\ RowsOK
  BY DEF Init, Separate, RowsOK, Waiting
<1>4. QED
  BY <1>1, <1>2, <1>3 DEF IInv
-----------------------------------------------------------------------------
\* The committed rows only move forward.
Forward ==
  /\ satisfied \subseteq satisfied' /\ gates \subseteq gates'
  /\ \A t \in Task : status[t] # "none" => status'[t] # "none"
  /\ \A t \in Task : status[t] \in {"done", "cancelled"} => status'[t] = status[t]

Same(y) ==
  /\ pc'[y] = pc[y] /\ op'[y] = op[y] /\ on'[y] = on[y] /\ reads'[y] = reads[y]
  /\ done'[y] = done[y] /\ waits'[y] = waits[y] /\ edges'[y] = edges[y]
  /\ locked'[y] = locked[y]

LEMMA OverForward ==
  ASSUME Forward, NEW b \in Blocker, Over(b)
  PROVE  Over(b)'
BY DEF Forward, Over

LEMMA WaitingForward ==
  ASSUME Forward, NEW t \in Task
  PROVE  Waiting(t)' \subseteq Waiting(t)
BY DEF Forward, Waiting

\* A transaction that takes no step keeps its footing when the rows move forward,
\* the rows it has locked stay, and the tasks it raises are not raised.
LEMMA BystanderOK ==
  ASSUME TypeOK, Forward, NEW y \in Actor, TxOK(y), Same(y),
         \A t \in locked[y] : status'[t] = status[t],
         op[y] = "raise" => \A t \in TasksOf(on[y]) : status'[t] = status[t]
  PROVE  TxOK(y)'
<1>1. IdleOK(y)'
  BY DEF TxOK, IdleOK, Same, Forward, Raised, TypeOK
<1>2. FinishOK(y)'
  <2> SUFFICES ASSUME op[y] \in {"complete", "cancel", "gate"}
               PROVE  FinishOK(y)'
    BY DEF FinishOK, Same
  <2>1. FinishOK(y)
    BY DEF TxOK
  <2>2. reads[y] \subseteq Task /\ done[y] \subseteq Task
    BY <2>1 DEF TypeOK, FinishOK, Raised
  <2>3. ASSUME NEW t \in Task, Freed(y, t) PROVE Freed(y, t)'
    BY <2>3, WaitingForward DEF Freed, Same
  <2>4. reads'[y] \subseteq Raised'
    BY <2>1 DEF FinishOK, Forward, Raised, Same
  <2>5. \A t \in done'[y] : Freed(y, t)' /\ t \in locked'[y] /\ status'[t] = "blocked"
    BY <2>1, <2>2, <2>3 DEF FinishOK, Same
  <2>6. pc'[y] \in {"stamp", "unlock"} => \A t \in reads'[y] : Freed(y, t)'
    BY <2>1, <2>2, <2>3 DEF FinishOK, Same
  <2>7. op'[y] # "gate" => on'[y] \in Task /\ on'[y] \in locked'[y]
                           /\ status'[on'[y]] \in Allowed(op'[y])
    BY <2>1 DEF FinishOK, Same
  <2>8. QED
    BY <2>1, <2>4, <2>5, <2>6, <2>7 DEF FinishOK, Same
<1>3. RaiseOK(y)'
  <2> SUFFICES ASSUME op[y] = "raise"
               PROVE  RaiseOK(y)'
    BY DEF RaiseOK, Same
  <2>1. RaiseOK(y)
    BY DEF TxOK
  <2>2. reads'[y] \subseteq gates'
    BY <2>1 DEF RaiseOK, Forward, Same
  <2>3. \A t \in TasksOf(on'[y]) : status'[t] = "none" /\ Existing(t) \subseteq Raised'
    BY <2>1 DEF RaiseOK, Forward, Same, Raised
  <2>4. \A t \in Task, b \in Blocker : <<t, b>> \in edges'[y] \ waits'[y] => Over(b)'
    BY <2>1, OverForward DEF RaiseOK, Same
  <2>5. QED
    BY <2>1, <2>2, <2>3, <2>4 DEF RaiseOK, Same
<1>4. QED
  BY <1>1, <1>2, <1>3 DEF TxOK
-----------------------------------------------------------------------------
\* A statement that writes no committed row concerns its own transaction only.
LEMMA QuietStep ==
  ASSUME IInv, NEW x \in Actor, UNCHANGED rows, \A y \in Actor \ {x} : Same(y),
         TypeOK', TxOK(x)', Separate'
  PROVE  IInv'
<1>1. Forward
  BY DEF rows, Forward
<1>2. ASSUME NEW y \in Actor \ {x} PROVE TxOK(y)'
  <2>1. TypeOK /\ TxOK(y) /\ Same(y) /\ status' = status
    BY DEF IInv, rows
  <2>2. QED
    BY <1>1, <2>1, BystanderOK
<1>3. RowsOK'
  <2>1. RowsOK /\ UNCHANGED rows
    BY DEF IInv
  <2>2. QED
    BY <2>1 DEF RowsOK, rows, Waiting, Over
<1>4. QED
  BY <1>2, <1>3 DEF IInv

LEMMA BeginFinishInv ==
  ASSUME IInv, NEW x \in Actor, NEW t \in Task, NEW what \in {"complete", "cancel"},
         BeginFinish(x, t, what)
  PROVE  IInv'
<1> USE DEF BeginFinish, Begin, rows
<1>1. TypeOK'
  BY DEF IInv, TypeOK, Blocker
<1>2. \A y \in Actor \ {x} : Same(y)
  BY DEF IInv, TypeOK, Same
<1>3. op[x] = "none" /\ reads[x] = {} /\ done[x] = {} /\ edges[x] = {}
  BY DEF IInv, TxOK, IdleOK
<1>4. /\ pc'[x] = "match" /\ op'[x] = what /\ on'[x] = t /\ locked'[x] = {t}
      /\ reads'[x] = {} /\ done'[x] = {} /\ edges'[x] = {} /\ status' = status
  BY <1>3 DEF IInv, TypeOK
<1>5. TxOK(x)'
  BY <1>4 DEF TxOK, IdleOK, FinishOK, RaiseOK, Raised, Allowed
<1>6. Separate'
  BY <1>2, <1>4 DEF IInv, Separate, Same, Lockable
<1>7. QED
  BY <1>1, <1>2, <1>5, <1>6, QuietStep

LEMMA BeginGateInv ==
  ASSUME IInv, NEW x \in Actor, NEW g \in Gate, BeginGate(x, g)
  PROVE  IInv'
<1> USE DEF BeginGate, Begin, rows
<1>1. TypeOK'
  BY DEF IInv, TypeOK, Blocker
<1>2. \A y \in Actor \ {x} : Same(y)
  BY DEF IInv, TypeOK, Same
<1>3. op[x] = "none" /\ reads[x] = {} /\ done[x] = {} /\ edges[x] = {} /\ locked[x] = {}
  BY DEF IInv, TxOK, IdleOK
<1>4. /\ pc'[x] = "match" /\ op'[x] = "gate" /\ on'[x] = g /\ locked'[x] = {}
      /\ reads'[x] = {} /\ done'[x] = {} /\ edges'[x] = {} /\ status' = status
  BY <1>3 DEF IInv, TypeOK
<1>5. TxOK(x)'
  BY <1>4 DEF TxOK, IdleOK, FinishOK, RaiseOK, Raised
<1>6. Separate'
  BY <1>2, <1>4 DEF IInv, Separate, Same
<1>7. QED
  BY <1>1, <1>2, <1>5, <1>6, QuietStep

LEMMA MatchInv ==
  ASSUME IInv, NEW x \in Actor, Match(x)
  PROVE  IInv'
<1> USE DEF Match, rows
<1>1. TypeOK'
  BY DEF IInv, TypeOK, Raised, Blocker
<1>2. \A y \in Actor \ {x} : Same(y)
  BY DEF IInv, TypeOK, Same
<1>3. /\ op[x] \in {"complete", "cancel", "gate"} /\ op'[x] = op[x] /\ on'[x] = on[x]
      /\ FinishOK(x) /\ done[x] = {} /\ done'[x] = {} /\ locked'[x] = locked[x]
      /\ edges'[x] = edges[x] /\ status' = status
  BY DEF IInv, TypeOK, TxOK, IdleOK, FinishOK, RaiseOK
<1>4. /\ reads'[x] \subseteq { t \in Raised : on[x] \in Waiting(t) }
      /\ pc'[x] \in {"evaluate", "commit"}
  BY DEF IInv, TypeOK
<1>5. TxOK(x)'
  <2>1. IdleOK(x)' /\ RaiseOK(x)'
    BY <1>3, <1>4 DEF IInv, TxOK, IdleOK, RaiseOK, Raised
  <2>2. FinishOK(x)'
    BY <1>3, <1>4 DEF FinishOK, Raised, Waiting
  <2>3. QED
    BY <2>1, <2>2 DEF TxOK
<1>6. Separate'
  BY DEF IInv, Separate
<1>7. QED
  BY <1>1, <1>2, <1>5, <1>6, QuietStep

LEMMA EvaluateInv ==
  ASSUME IInv, NEW x \in Actor, Evaluate(x)
  PROVE  IInv'
<1> USE DEF Evaluate, rows
<1>0. reads[x] \subseteq Task /\ on[x] \in Blocker /\ FinishOK(x)
      /\ op[x] \in {"complete", "cancel", "gate"}
  BY DEF IInv, TypeOK, TxOK, IdleOK, FinishOK, RaiseOK, Raised, Blocker
<1>1. TypeOK'
  BY <1>0 DEF IInv, TypeOK, Unlocks
<1>2. \A y \in Actor \ {x} : Same(y)
  BY DEF IInv, TypeOK, Same
<1>3. /\ op'[x] = op[x] /\ on'[x] = on[x] /\ pc'[x] = "stamp"
      /\ done[x] = {} /\ done'[x] = {} /\ locked'[x] = locked[x] /\ status' = status
  BY <1>0 DEF IInv, TypeOK, FinishOK
<1>4. /\ reads'[x] = Unlocks(reads[x], on[x])
      /\ edges'[x] = { <<t, on[x]>> : t \in reads[x] }
  BY DEF IInv, TypeOK
<1>5. TxOK(x)'
  <2>1. IdleOK(x)' /\ RaiseOK(x)'
    BY <1>0, <1>3 DEF IInv, TxOK, IdleOK, RaiseOK, Raised
  <2>2. \A t \in reads'[x] : Freed(x, t)'
    BY <1>0, <1>3, <1>4 DEF FinishOK, Freed, Unlocks, Waiting
  <2>3. reads'[x] \subseteq Raised'
    BY <1>0, <1>4 DEF FinishOK, Unlocks, Raised
  <2>4. \A t \in Task, b \in Blocker : <<t, b>> \in edges'[x] => b = on[x]
    BY <1>4
  <2>5. FinishOK(x)'
    BY <1>0, <1>3, <2>2, <2>3, <2>4 DEF FinishOK
  <2>6. QED
    BY <2>1, <2>5 DEF TxOK
<1>6. Separate'
  BY DEF IInv, Separate
<1>7. QED
  BY <1>1, <1>2, <1>5, <1>6, QuietStep

LEMMA StampInv ==
  ASSUME IInv, NEW x \in Actor, Stamp(x)
  PROVE  IInv'
<1> USE DEF Stamp, rows
<1>1. TypeOK'
  BY DEF IInv, TypeOK
<1>2. \A y \in Actor \ {x} : Same(y)
  BY DEF IInv, TypeOK, Same
<1>3. op[x] \in {"complete", "cancel", "gate"} /\ pc'[x] = "unlock" /\ TxOK(x)
  BY DEF IInv, TypeOK, TxOK, IdleOK, FinishOK, RaiseOK
<1>4. TxOK(x)'
  BY <1>3 DEF TxOK, IdleOK, FinishOK, RaiseOK, Raised, Freed, Waiting
<1>5. Separate'
  BY DEF IInv, Separate
<1>6. QED
  BY <1>1, <1>2, <1>4, <1>5, QuietStep

LEMMA UnlockInv ==
  ASSUME IInv, NEW x \in Actor, Unlock(x)
  PROVE  IInv'
<1> USE DEF rows
<1>0. PICK t \in reads[x] :
        /\ Lockable(x, t)
        /\ locked' = [locked EXCEPT ![x] = @ \cup {t}]
        /\ reads' = [reads EXCEPT ![x] = @ \ {t}]
        /\ done' = [done EXCEPT ![x] = IF status[t] = "blocked" THEN @ \cup {t} ELSE @]
        /\ UNCHANGED <<rows, pc, op, on, waits, edges, shared>> /\ pc[x] = "unlock"
  BY DEF Unlock
<1>1. op[x] \in {"complete", "cancel", "gate"} /\ FinishOK(x) /\ t \in Task /\ Freed(x, t)
  BY <1>0 DEF IInv, TypeOK, TxOK, IdleOK, FinishOK, RaiseOK, Raised
<1>2. TypeOK'
  BY <1>0, <1>1 DEF IInv, TypeOK
<1>3. \A y \in Actor \ {x} : Same(y)
  BY <1>0 DEF IInv, TypeOK, Same
<1>4. /\ locked'[x] = locked[x] \cup {t} /\ reads'[x] = reads[x] \ {t}
      /\ done'[x] = (IF status[t] = "blocked" THEN done[x] \cup {t} ELSE done[x])
      /\ pc'[x] = "unlock" /\ status' = status
  BY <1>0 DEF IInv, TypeOK
<1>5. TxOK(x)'
  <2>1. IdleOK(x)' /\ RaiseOK(x)'
    BY <1>0, <1>1, <1>4 DEF IInv, TxOK, IdleOK, FinishOK, RaiseOK, Raised
  <2>2. ASSUME NEW u \in Task, Freed(x, u) PROVE Freed(x, u)'
    BY <1>0, <2>2 DEF Freed, Waiting
  <2>3. reads[x] \subseteq Task /\ done[x] \subseteq Task
    BY <1>1 DEF IInv, TypeOK, FinishOK, Raised
  <2>4. \A u \in done'[x] : Freed(x, u)' /\ u \in locked'[x] /\ status'[u] = "blocked"
    BY <1>1, <1>4, <2>2, <2>3 DEF FinishOK
  <2>5. \A u \in reads'[x] : Freed(x, u)'
    BY <1>0, <1>1, <1>4, <2>2, <2>3 DEF FinishOK
  <2>6. reads'[x] \subseteq Raised'
    BY <1>1, <1>4 DEF FinishOK, Raised
  <2>7. FinishOK(x)'
    BY <1>0, <1>1, <1>4, <2>4, <2>5, <2>6 DEF FinishOK
  <2>8. QED
    BY <2>1, <2>7 DEF TxOK
<1>6. Separate'
  BY <1>0, <1>3, <1>4 DEF IInv, Separate, Same, Lockable
<1>7. QED
  BY <1>0, <1>2, <1>3, <1>5, <1>6, QuietStep

LEMMA BeginRaiseInv ==
  ASSUME IInv, NEW x \in Actor, NEW l \in List, BeginRaise(x, l)
  PROVE  IInv'
<1> USE DEF BeginRaise, Begin, rows
<1>1. TypeOK'
  BY DEF IInv, TypeOK, Blocker
<1>2. \A y \in Actor \ {x} : Same(y)
  BY DEF IInv, TypeOK, Same
<1>3. op[x] = "none" /\ done[x] = {} /\ edges[x] = {} /\ locked[x] = {}
  BY DEF IInv, TxOK, IdleOK
<1>4. /\ pc'[x] = "insert" /\ op'[x] = "raise" /\ on'[x] = l /\ locked'[x] = {}
      /\ reads'[x] = gates /\ done'[x] = {} /\ edges'[x] = {} /\ status' = status
  BY <1>3 DEF IInv, TypeOK
<1>5. TxOK(x)'
  <2>1. IdleOK(x)' /\ FinishOK(x)'
    BY <1>4 DEF IdleOK, FinishOK, Raised
  <2>2. \A t \in TasksOf(l) : status[t] = "none" /\ Existing(t) \subseteq Raised
    BY DEF TasksOf, Raised
  <2>3. RaiseOK(x)'
    BY <1>4, <2>2 DEF RaiseOK, Raised
  <2>4. QED
    BY <2>1, <2>3 DEF TxOK
<1>6. Separate'
  BY <1>2, <1>4 DEF IInv, Separate, Same
<1>7. QED
  BY <1>1, <1>2, <1>5, <1>6, QuietStep

LEMMA ReadBlockersInv ==
  ASSUME IInv, NEW x \in Actor, NEW t \in Task, ReadBlockers(x, t)
  PROVE  IInv'
<1> USE DEF ReadBlockers, rows
<1> DEFINE new == Siblings(t) \cup Unfinished(t) \cup ((Needs[t] \cap Gate) \ reads[x])
<1>0. op[x] = "raise" /\ RaiseOK(x) /\ t \in TasksOf(on[x])
  BY DEF IInv, TypeOK, TxOK, IdleOK, FinishOK, RaiseOK
<1>1. new \subseteq Blocker /\ Needs[t] \subseteq Blocker
  BY SpecAssumption DEF Siblings, Unfinished, Existing, Blocker
<1>2. TypeOK'
  BY <1>1 DEF IInv, TypeOK
<1>3. \A y \in Actor \ {x} : Same(y)
  BY DEF IInv, TypeOK, Same
<1>4. /\ pc'[x] = "edges" /\ op'[x] = "raise" /\ on'[x] = on[x] /\ locked'[x] = locked[x]
      /\ reads'[x] = reads[x] /\ done'[x] = done[x] \cup {t}
      /\ waits'[x] = waits[x] \cup ({t} \X new)
      /\ edges'[x] = edges[x] \cup ({t} \X Needs[t])
  BY <1>0 DEF IInv, TypeOK
<1>5. \A b \in Needs[t] \ new : Over(b)
  <2>1. Existing(t) \subseteq Raised /\ reads[x] \subseteq gates
    BY <1>0 DEF RaiseOK
  <2>2. ASSUME NEW b \in Needs[t] \ new PROVE Over(b)
    <3>1. CASE b \in Gate
      BY <2>1, <3>1 DEF Over
    <3>2. CASE b \in Task
      <4>1. b \in Existing(t) /\ status[b] \notin {"blocked", "open"}
        BY <3>2 DEF Existing, Unfinished
      <4>2. QED
        BY <2>1, <3>2, <4>1 DEF Over, Raised, IInv, TypeOK
    <3>3. QED
      BY <1>1, <3>1, <3>2 DEF Blocker
  <2>3. QED
    BY <2>2
<1> HIDE DEF new
<1>6. RaiseOK(x)'
  <2>1. \A u \in done'[x] : \A b \in Needs[u] : <<u, b>> \in edges'[x]
    BY <1>0, <1>4 DEF RaiseOK
  <2>2. ASSUME NEW u \in Task, NEW b \in Blocker, <<u, b>> \in edges'[x] \ waits'[x]
        PROVE  Over(b)'
    <3>1. Over(b)
      <4>1. CASE <<u, b>> \in edges[x]
        BY <1>0, <1>4, <2>2, <4>1 DEF RaiseOK
      <4>2. CASE u = t /\ b \in Needs[t]
        BY <1>4, <1>5, <2>2, <4>2
      <4>3. QED
        BY <1>4, <2>2, <4>1, <4>2
    <3>2. QED
      BY <3>1 DEF Over
  <2>3. QED
    BY <1>0, <1>4, <2>1, <2>2 DEF RaiseOK, Raised
<1>7. TxOK(x)'
  BY <1>4, <1>6 DEF TxOK, IdleOK, FinishOK, IInv, Raised
<1>8. Separate'
  BY DEF IInv, Separate
<1>9. QED
  BY <1>2, <1>3, <1>7, <1>8, QuietStep

LEMMA InsertTaskInv ==
  ASSUME IInv, NEW x \in Actor, InsertTask(x)
  PROVE  IInv'
<1> USE DEF InsertTask, rows
<1>1. TypeOK'
  BY DEF IInv, TypeOK, Existing
<1>2. \A y \in Actor \ {x} : Same(y)
  BY DEF IInv, TypeOK, Same
<1>3. op[x] = "raise" /\ pc'[x] \in {"insert", "raised"} /\ TxOK(x)
  BY DEF IInv, TypeOK, TxOK, IdleOK, FinishOK, RaiseOK
<1>4. TxOK(x)'
  BY <1>3 DEF TxOK, IdleOK, FinishOK, RaiseOK, Raised, Over
<1>5. Separate'
  BY DEF IInv, Separate
<1>6. QED
  BY <1>1, <1>2, <1>4, <1>5, QuietStep
-----------------------------------------------------------------------------
\* A transaction ends: what it wrote moved the rows forward and touched neither
\* a row another holds nor a task another is raising.
LEMMA EndStep ==
  ASSUME IInv, NEW x \in Actor, End(x), Forward, RowsOK',
         status' \in [Task -> {"none", "blocked", "open", "done", "cancelled"}],
         satisfied' \subseteq Task \X Blocker, gates' \subseteq Gate,
         unblocks' \in [Task -> Nat],
         \A y \in Actor \ {x} : \A t \in locked[y] : status'[t] = status[t],
         \A y \in Actor \ {x} : op[y] = "raise" =>
            \A t \in TasksOf(on[y]) : status'[t] = status[t]
  PROVE  IInv'
<1> USE DEF End
<1>1. TypeOK'
  BY DEF IInv, TypeOK
<1>2. \A y \in Actor \ {x} : Same(y)
  BY DEF IInv, TypeOK, Same
<1>3. \A y \in Actor \ {x} : TxOK(y)'
  BY <1>2, BystanderOK DEF IInv
<1>4. /\ pc'[x] = "idle" /\ op'[x] = "none" /\ reads'[x] = {} /\ done'[x] = {}
      /\ waits'[x] = {} /\ edges'[x] = {} /\ locked'[x] = {}
  BY DEF IInv, TypeOK
<1>5. TxOK(x)'
  BY <1>4 DEF TxOK, IdleOK, FinishOK, RaiseOK, Raised
<1>6. Separate'
  BY <1>2, <1>4 DEF IInv, Separate, Same
<1>7. QED
  BY <1>1, <1>3, <1>5, <1>6 DEF IInv

LEMMA AbortInv ==
  ASSUME IInv, NEW x \in Actor, Abort(x)
  PROVE  IInv'
<1>1. End(x) /\ UNCHANGED rows
  BY DEF Abort
<1>2. Forward
  BY <1>1 DEF rows, Forward
<1>3. RowsOK'
  BY <1>1 DEF IInv, RowsOK, rows, Waiting, Over
<1>4. QED
  BY <1>1, <1>2, <1>3, EndStep DEF IInv, TypeOK, rows

\* What committing a completion, a cancellation or a gate does to each task.
LEMMA FinishMoves ==
  ASSUME IInv, NEW x \in Actor, CommitFinish(x), NEW t \in Task
  PROVE  \/ t = on[x] /\ op[x] \in {"complete", "cancel"} /\ t \in locked[x]
              /\ t \notin done[x]
              /\ status[t] \in Allowed(op[x]) /\ status'[t] = Leads(op[x])
              /\ unblocks'[t] = unblocks[t]
         \/ t # on[x] /\ t \in done[x] /\ t \in locked[x] /\ Freed(x, t)
              /\ status[t] = "blocked" /\ status'[t] = "open"
              /\ unblocks'[t] = unblocks[t] + 1
         \/ t # on[x] /\ status'[t] = status[t] /\ unblocks'[t] = unblocks[t]
<1>1. op[x] \in {"complete", "cancel", "gate"} /\ FinishOK(x)
  BY DEF CommitFinish, IInv, TypeOK, TxOK, IdleOK, FinishOK, RaiseOK
<1>2. t \in done[x] => Freed(x, t) /\ t \in locked[x] /\ status[t] = "blocked"
  BY <1>1 DEF FinishOK
<1>3. t \in done[x] => t # on[x]
  BY <1>2, SpecAssumption DEF Freed
<1>4. t = on[x] => op[x] # "gate" /\ t \in locked[x] /\ status[t] \in Allowed(op[x])
  BY <1>1, SpecAssumption DEF FinishOK
<1>5. /\ status'[t] = (IF t = on[x] THEN Leads(op[x]) ELSE IF t \in done[x] THEN "open" ELSE status[t])
      /\ unblocks'[t] = (IF t \in done[x] THEN unblocks[t] + 1 ELSE unblocks[t])
  BY DEF CommitFinish
<1>6. CASE t = on[x]
  BY <1>1, <1>3, <1>4, <1>5, <1>6
<1>7. CASE t # on[x] /\ t \in done[x]
  BY <1>2, <1>5, <1>7
<1>8. CASE t # on[x] /\ t \notin done[x]
  BY <1>5, <1>8
<1>9. QED
  BY <1>6, <1>7, <1>8

LEMMA CommitFinishInv ==
  ASSUME IInv, NEW x \in Actor, CommitFinish(x)
  PROVE  IInv'
<1>0. /\ op[x] \in {"complete", "cancel", "gate"} /\ FinishOK(x) /\ TypeOK /\ RowsOK
      /\ satisfied' = satisfied \cup edges[x] /\ End(x)
      /\ gates' = (IF op[x] = "gate" THEN gates \cup {on[x]} ELSE gates)
  BY DEF CommitFinish, IInv, TypeOK, TxOK, IdleOK, FinishOK, RaiseOK
<1>1. /\ status' \in [Task -> {"none", "blocked", "open", "done", "cancelled"}]
      /\ unblocks' \in [Task -> Nat]
      /\ satisfied' \subseteq Task \X Blocker /\ gates' \subseteq Gate
  BY <1>0 DEF CommitFinish, TypeOK, Leads, FinishOK
<1>2. Forward
  <2>1. ASSUME NEW t \in Task, status[t] # "none" PROVE status'[t] # "none"
    BY <2>1, FinishMoves DEF Leads
  <2>2. ASSUME NEW t \in Task, status[t] \in {"done", "cancelled"} PROVE status'[t] = status[t]
    BY <2>2, FinishMoves DEF Allowed
  <2>3. QED
    BY <1>0, <2>1, <2>2 DEF Forward
<1>3. ASSUME NEW t \in Task, NEW b \in Blocker, <<t, b>> \in satisfied' PROVE Over(b)'
  <2>1. CASE <<t, b>> \in satisfied
    BY <1>0, <1>2, <2>1, OverForward DEF RowsOK
  <2>2. CASE <<t, b>> \in edges[x]
    <3>1. b = on[x]
      BY <1>0, <2>2 DEF FinishOK
    <3>2. CASE op[x] = "gate"
      BY <1>0, <3>1, <3>2 DEF Over
    <3>3. CASE op[x] # "gate"
      <4>1. b \in Task
        BY <1>0, <3>1, <3>3 DEF FinishOK
      <4>2. status'[b] = Leads(op[x])
        BY <3>1, <4>1 DEF CommitFinish
      <4>3. QED
        BY <4>1, <4>2 DEF Over, Leads
    <3>4. QED
      BY <3>2, <3>3
  <2>3. QED
    BY <1>0, <1>3, <2>1, <2>2
<1>4. ASSUME NEW t \in Task, status'[t] \in {"open", "done"} PROVE Waiting(t)' = {}
  <2>1. Waiting(t)' \subseteq Waiting(t)
    BY <1>2, WaitingForward
  <2>2. CASE Freed(x, t)
    BY <1>0, <2>1, <2>2 DEF Freed, Waiting
  <2>3. CASE status[t] \in {"open", "done"}
    BY <1>0, <2>1, <2>3 DEF RowsOK
  <2>4. Freed(x, t) \/ status[t] \in {"open", "done"}
    BY <1>4, FinishMoves DEF Allowed, Leads
  <2>5. QED
    BY <2>2, <2>3, <2>4
<1>5. ASSUME NEW t \in Task
      PROVE  unblocks'[t] <= 1 /\ (status'[t] \in {"none", "blocked"} => unblocks'[t] = 0)
  BY <1>0, FinishMoves DEF RowsOK, Leads, TypeOK
<1>6. RowsOK'
  BY <1>3, <1>4, <1>5 DEF RowsOK
<1>7. ASSUME NEW y \in Actor \ {x}, NEW t \in locked[y] PROVE status'[t] = status[t]
  <2>1. t \in Task /\ t \notin locked[x]
    BY DEF IInv, TypeOK, Separate
  <2>2. QED
    BY <2>1, FinishMoves
<1>8. ASSUME NEW y \in Actor \ {x}, op[y] = "raise", NEW t \in TasksOf(on[y])
      PROVE  status'[t] = status[t]
  <2>1. t \in Task /\ status[t] = "none"
    BY <1>8 DEF IInv, TxOK, RaiseOK, TasksOf
  <2>2. QED
    BY <2>1, FinishMoves DEF Allowed
<1>9. QED
  BY <1>0, <1>1, <1>2, <1>6, <1>7, <1>8, EndStep

LEMMA CommitRaiseInv ==
  ASSUME IInv, NEW x \in Actor, CommitRaise(x)
  PROVE  IInv'
<1>0. /\ op[x] = "raise" /\ RaiseOK(x) /\ TypeOK /\ RowsOK
      /\ satisfied' = satisfied \cup (edges[x] \ waits[x]) /\ End(x)
      /\ gates' = gates /\ unblocks' = unblocks
  BY DEF CommitRaise, IInv, TypeOK, TxOK, IdleOK, FinishOK, RaiseOK
<1>1. \A t \in Task : status'[t] = IF t \notin done[x] THEN status[t]
                                  ELSE IF \E b \in Blocker : <<t, b>> \in waits[x]
                                  THEN "blocked" ELSE "open"
  BY DEF CommitRaise
<1>2. /\ status' \in [Task -> {"none", "blocked", "open", "done", "cancelled"}]
      /\ satisfied' \subseteq Task \X Blocker
  BY <1>0 DEF CommitRaise, TypeOK
<1>3. \A t \in done[x] : t \in Task /\ status[t] = "none" /\ t \in TasksOf(on[x])
  BY <1>0 DEF RaiseOK, TypeOK
<1>4. Forward
  BY <1>0, <1>1, <1>3 DEF Forward
<1>5. ASSUME NEW t \in Task, NEW b \in Blocker, <<t, b>> \in satisfied' PROVE Over(b)'
  <2>1. Over(b)
    BY <1>0, <1>5 DEF RowsOK, RaiseOK
  <2>2. QED
    BY <1>4, <2>1, OverForward
<1>6. ASSUME NEW t \in Task, status'[t] \in {"open", "done"} PROVE Waiting(t)' = {}
  <2>1. CASE t \in done[x]
    <3>1. \A b \in Needs[t] : b \in Blocker /\ <<t, b>> \in edges[x]
      BY <1>0, <2>1, SpecAssumption DEF RaiseOK
    <3>2. \A b \in Blocker : <<t, b>> \notin waits[x]
      BY <1>1, <1>6, <2>1
    <3>3. QED
      BY <1>0, <3>1, <3>2 DEF Waiting
  <2>2. CASE t \notin done[x]
    <3>1. Waiting(t) = {}
      BY <1>0, <1>1, <1>6, <2>2 DEF RowsOK
    <3>2. QED
      BY <1>4, <3>1, WaitingForward
  <2>3. QED
    BY <2>1, <2>2
<1>7. ASSUME NEW t \in Task
      PROVE  unblocks'[t] <= 1 /\ (status'[t] \in {"none", "blocked"} => unblocks'[t] = 0)
  BY <1>0, <1>1, <1>3 DEF RowsOK, TypeOK
<1>8. RowsOK'
  BY <1>5, <1>6, <1>7 DEF RowsOK
<1>9. ASSUME NEW y \in Actor \ {x}, NEW t \in locked[y] PROVE status'[t] = status[t]
  <2>1. t \in Task /\ op[y] \in {"none", "complete", "cancel", "gate", "raise"}
    BY <1>0 DEF TypeOK
  <2>2. status[t] # "none"
    BY DEF IInv, TxOK, IdleOK, Raised
  <2>3. QED
    BY <1>1, <1>3, <2>1, <2>2
<1>10. ASSUME NEW y \in Actor \ {x}, op[y] = "raise", NEW t \in TasksOf(on[y])
       PROVE  status'[t] = status[t]
  <2>1. on[y] # on[x]
    BY <1>0, <1>10 DEF IInv, Separate
  <2>2. t \in Task /\ t \notin done[x]
    BY <1>3, <2>1 DEF TasksOf
  <2>3. QED
    BY <1>1, <2>2
<1>11. QED
  BY <1>0, <1>2, <1>4, <1>8, <1>9, <1>10, EndStep DEF TypeOK

LEMMA NextInv == IInv /\ [Next]_vars => IInv'
<1> SUFFICES ASSUME IInv, [Next]_vars PROVE IInv'
  OBVIOUS
<1>1. CASE UNCHANGED vars
  BY <1>1 DEF vars, rows, IInv, TypeOK, TxOK, IdleOK, FinishOK, RaiseOK, Separate, RowsOK,
              Raised, Freed, Waiting, Over
<1>2. ASSUME NEW x \in Actor, Beginning(x) PROVE IInv'
  BY <1>2, BeginFinishInv, BeginGateInv, BeginRaiseInv DEF Beginning
<1>3. ASSUME NEW x \in Actor, Satisfying(x) PROVE IInv'
  BY <1>3, MatchInv, EvaluateInv, StampInv, UnlockInv, CommitFinishInv DEF Satisfying
<1>4. ASSUME NEW x \in Actor, Raising(x) \/ Abort(x) PROVE IInv'
  BY <1>4, ReadBlockersInv, InsertTaskInv, CommitRaiseInv, AbortInv DEF Raising
<1>5. QED
  BY <1>1, <1>2, <1>3, <1>4 DEF Next

LEMMA AlwaysInv == Spec => []IInv
<1>1. QED
  BY InitInv, NextInv, PTL DEF Spec

\* Every reachable state of the task tables and the transactions is well typed.
THEOREM TypeCorrect == Spec => []TypeOK
<1>1. IInv => TypeOK
  BY DEF IInv
<1>2. QED
  BY <1>1, AlwaysInv, PTL

\* However completions, cancellations, gates and late raises interleave, no task
\* is worked on while something it waits on is unfinished or unopened.
THEOREM OpenAlwaysFree == Spec => []OpenMeansFree
<1>1. IInv => OpenMeansFree
  <2> SUFFICES ASSUME IInv, NEW t \in Task, status[t] \in {"open", "done"}
               PROVE  Waiting(t) = {} /\ \A b \in Needs[t] : Over(b)
    BY DEF OpenMeansFree, Over
  <2>1. Waiting(t) = {}
    BY DEF IInv, RowsOK
  <2>2. \A b \in Needs[t] : b \in Blocker /\ <<t, b>> \in satisfied
    BY <2>1, SpecAssumption DEF Waiting
  <2>3. QED
    BY <2>1, <2>2 DEF IInv, RowsOK
<1>2. QED
  BY <1>1, AlwaysInv, PTL

\* A task becoming free is announced once, however many effects open its gate.
THEOREM AnnouncedOnce == Spec => []UnblockedOnce
<1>1. IInv => UnblockedOnce
  BY DEF IInv, RowsOK, UnblockedOnce
<1>2. QED
  BY <1>1, AlwaysInv, PTL

\* Every statement but the two commits leaves the committed rows alone.
LEMMA OnlyCommitsWrite ==
  ASSUME [Next]_vars, ~ \E x \in Actor : CommitFinish(x) \/ CommitRaise(x)
  PROVE  UNCHANGED rows
BY DEF Next, vars, rows, Beginning, BeginFinish, BeginGate, BeginRaise, Satisfying, Match, Evaluate,
       Stamp, Unlock, Raising, ReadBlockers, InsertTask, Abort

\* A raised task was not there before, and no other status is touched.
LEMMA RaiseMoves ==
  ASSUME IInv, NEW x \in Actor, CommitRaise(x), NEW t \in Task
  PROVE  \/ t \in done[x] /\ status[t] = "none" /\ status'[t] \in {"blocked", "open"}
         \/ t \notin done[x] /\ status'[t] = status[t]
<1>1. RaiseOK(x) /\ op[x] = "raise"
  BY DEF CommitRaise, IInv, TypeOK, TxOK, IdleOK, FinishOK, RaiseOK
<1>2. t \in done[x] => status[t] = "none"
  BY <1>1 DEF RaiseOK
<1>3. QED
  BY <1>2 DEF CommitRaise

Moves(t) ==
  \/ <<status[t], status'[t]>> \in
       {<<"none", "blocked">>, <<"none", "open">>, <<"blocked", "open">>,
        <<"blocked", "cancelled">>, <<"open", "done">>, <<"open", "cancelled">>}
  \/ status'[t] = status[t]

LEMMA StatusMoves ==
  ASSUME IInv, [Next]_vars, NEW t \in Task
  PROVE  Moves(t)
<1>1. ASSUME NEW x \in Actor, CommitFinish(x) PROVE Moves(t)
  <2>1. CASE t = on[x] /\ status[t] \in Allowed(op[x]) /\ status'[t] = Leads(op[x])
    BY <2>1 DEF Allowed, Leads, Moves
  <2>2. CASE status[t] = "blocked" /\ status'[t] = "open"
    BY <2>2 DEF Moves
  <2>3. CASE status'[t] = status[t]
    BY <2>3 DEF Moves
  <2>4. QED
    BY <1>1, <2>1, <2>2, <2>3, FinishMoves
<1>2. ASSUME NEW x \in Actor, CommitRaise(x) PROVE Moves(t)
  BY <1>2, RaiseMoves DEF Moves
<1>3. CASE ~ \E x \in Actor : CommitFinish(x) \/ CommitRaise(x)
  BY <1>3, OnlyCommitsWrite DEF rows, Moves
<1>4. QED
  BY <1>1, <1>2, <1>3

\* A finished task never changes again and nobody resurrects a cancelled one.
THEOREM StatusAlwaysMoves == Spec => StatusMachine
<1>1. IInv /\ [Next]_vars => [\A t \in Task : Moves(t)]_vars
  BY StatusMoves
<1>2. [\A t \in Task : Moves(t)]_vars =>
        [\A t \in Task :
           <<status[t], status'[t]>> \in
             {<<"none", "blocked">>, <<"none", "open">>, <<"blocked", "open">>,
              <<"blocked", "cancelled">>, <<"open", "done">>, <<"open", "cancelled">>}
           \/ status'[t] = status[t]]_vars
  BY DEF Moves
<1>3. QED
  BY <1>1, <1>2, AlwaysInv, PTL DEF Spec, StatusMachine
-----------------------------------------------------------------------------
(***************************************************************************)
(* A task with one blocker is not left behind by two transactions that     *)
(* satisfy different edges of it, because there are not two.  The argument *)
(* needs that whatever a transaction stamped, it opened or found open.     *)
(***************************************************************************)
OneBlockerEach == \A t \in Task : \A b, d \in Needs[t] : b = d

Past(t) == status[t] \notin {"none", "blocked"}

LoneOK(x) ==
  /\ op[x] \in {"complete", "cancel", "gate"} =>
       /\ pc[x] \in {"match", "evaluate", "commit"} => edges[x] = {}
       /\ pc[x] \in {"stamp", "unlock"} =>
            \A t \in Task : <<t, on[x]>> \in edges[x] => t \in reads[x] \cup done[x] \/ Past(t)
  /\ op[x] = "raise" =>
       \A t \in Task, b \in Blocker :
         /\ <<t, b>> \in edges[x] => t \in done[x]
         /\ <<t, b>> \in waits[x] => t \in done[x] /\ b \in Needs[t]

LoneInv ==
  /\ \A x \in Actor : LoneOK(x)
  /\ SatisfiedTasksOpen
  /\ \A t \in Task, b \in Blocker : <<t, b>> \in satisfied => status[t] # "none"

LEMMA LoneInit == Init => LoneInv
BY DEF Init, LoneInv, LoneOK, SatisfiedTasksOpen

LEMMA PastStays ==
  ASSUME IInv, [Next]_vars, NEW t \in Task, Past(t)
  PROVE  Past(t)'
BY StatusMoves DEF Moves, Past

\* A statement concerns no transaction but its own.
LEMMA OwnStep ==
  ASSUME TypeOK, NEW x \in Actor, Beginning(x) \/ Satisfying(x) \/ Raising(x) \/ Abort(x),
         NEW y \in Actor \ {x}
  PROVE  Same(y)
<1>1. CASE Beginning(x)
  BY <1>1 DEF TypeOK, Same, Beginning, BeginFinish, BeginGate, BeginRaise, Begin
<1>2. CASE Match(x) \/ Evaluate(x) \/ Stamp(x) \/ Unlock(x)
  BY <1>2 DEF TypeOK, Same, Match, Evaluate, Stamp, Unlock
<1>3. CASE CommitFinish(x) \/ CommitRaise(x) \/ Abort(x)
  BY <1>3 DEF TypeOK, Same, CommitFinish, CommitRaise, Abort, End
<1>4. CASE InsertTask(x) \/ \E t \in Task : ReadBlockers(x, t)
  BY <1>4 DEF TypeOK, Same, InsertTask, ReadBlockers
<1>5. QED
  BY <1>1, <1>2, <1>3, <1>4 DEF Satisfying, Raising

\* Each statement of a transaction keeps its own account right.
LEMMA LoneStep ==
  ASSUME IInv, LoneInv, OneBlockerEach, NEW x \in Actor, [Next]_vars,
         Beginning(x) \/ Satisfying(x) \/ Raising(x) \/ Abort(x)
  PROVE  \A y \in Actor : LoneOK(y)'
<1> USE DEF rows
<1>1. ASSUME NEW y \in Actor \ {x} PROVE LoneOK(y)'
  <2>1. Same(y)
    BY OwnStep DEF IInv
  <2>2. LoneOK(y) /\ \A t \in Task : Past(t) => Past(t)'
    BY PastStays DEF LoneInv
  <2>3. QED
    BY <2>1, <2>2 DEF LoneOK, Same
<1>a. SUFFICES LoneOK(x)'
  BY <1>1
<1>2. CASE Beginning(x)
  <2>1. edges[x] = {} /\ waits[x] = {} /\ edges' = edges /\ waits' = waits
    BY <1>2 DEF IInv, TxOK, IdleOK, Beginning, BeginFinish, BeginGate, BeginRaise, Begin
  <2>2. QED
    BY <2>1 DEF LoneOK
<1>3. CASE Match(x)
  BY <1>3 DEF Match, IInv, TypeOK, LoneInv, LoneOK, TxOK, RaiseOK
<1>4. CASE Evaluate(x)
  <2>1. /\ edges'[x] = { <<t, on[x]>> : t \in reads[x] } /\ on'[x] = on[x] /\ op'[x] = op[x]
        /\ reads'[x] = Unlocks(reads[x], on[x]) /\ pc'[x] = "stamp"
    BY <1>4 DEF Evaluate, IInv, TypeOK
  <2>2. op[x] \in {"complete", "cancel", "gate"} /\ \A t \in reads[x] : t \in Task /\ on[x] \in Needs[t]
    BY <1>4 DEF Evaluate, IInv, TypeOK, TxOK, IdleOK, FinishOK, RaiseOK, Raised
  <2>3. \A t \in reads[x] : t \in reads'[x]
    BY <2>1, <2>2 DEF Unlocks, Waiting, OneBlockerEach
  <2>4. QED
    BY <2>1, <2>2, <2>3 DEF LoneOK
<1>5. CASE Stamp(x)
  BY <1>5 DEF Stamp, IInv, TypeOK, LoneInv, LoneOK, TxOK, RaiseOK, Past
<1>6. CASE Unlock(x)
  <2>1. PICK t \in reads[x] :
          /\ reads' = [reads EXCEPT ![x] = @ \ {t}]
          /\ done' = [done EXCEPT ![x] = IF status[t] = "blocked" THEN @ \cup {t} ELSE @]
          /\ UNCHANGED <<rows, pc, op, on, waits, edges, shared>> /\ pc[x] = "unlock"
    BY <1>6 DEF Unlock
  <2>2. op[x] \in {"complete", "cancel", "gate"} /\ status[t] # "none"
    BY <2>1 DEF IInv, TypeOK, TxOK, IdleOK, FinishOK, RaiseOK, Raised
  <2>3. t \in done'[x] \/ Past(t)
    BY <2>1, <2>2 DEF Past, IInv, TypeOK
  <2>4. \A u \in Task : u \in reads[x] \cup done[x] \/ Past(u) =>
                        u \in reads'[x] \cup done'[x] \/ Past(u)'
    BY <2>1, <2>3 DEF Past, IInv, TypeOK
  <2>5. QED
    BY <2>1, <2>2, <2>4 DEF LoneInv, LoneOK
<1>7. CASE CommitFinish(x) \/ CommitRaise(x) \/ Abort(x)
  BY <1>7 DEF CommitFinish, CommitRaise, Abort, End, LoneOK, IInv, TypeOK
<1>8. CASE \E t \in Task : ReadBlockers(x, t)
  <2>1. PICK t \in Task : ReadBlockers(x, t)
    BY <1>8
  <2> DEFINE new == Siblings(t) \cup Unfinished(t) \cup ((Needs[t] \cap Gate) \ reads[x])
  <2>2. new \subseteq Needs[t]
    BY DEF Siblings, Unfinished, Existing
  <2>3. /\ op[x] = "raise" /\ op'[x] = "raise" /\ done'[x] = done[x] \cup {t}
        /\ edges'[x] = edges[x] \cup ({t} \X Needs[t])
        /\ waits'[x] = waits[x] \cup ({t} \X new)
    BY <2>1 DEF ReadBlockers, IInv, TypeOK, TxOK, IdleOK, FinishOK, RaiseOK
  <2> HIDE DEF new
  <2>4. QED
    BY <2>2, <2>3 DEF LoneInv, LoneOK
<1>9. CASE InsertTask(x)
  BY <1>9 DEF InsertTask, IInv, TypeOK, LoneInv, LoneOK, TxOK, FinishOK
<1>10. QED
  BY <1>2, <1>3, <1>4, <1>5, <1>6, <1>7, <1>8, <1>9 DEF Satisfying, Raising

LEMMA LoneNext == IInv /\ LoneInv /\ OneBlockerEach /\ [Next]_vars => LoneInv'
<1> SUFFICES ASSUME IInv, LoneInv, OneBlockerEach, [Next]_vars PROVE LoneInv'
  OBVIOUS
<1>1. CASE UNCHANGED vars
  BY <1>1 DEF vars, rows, LoneInv, LoneOK, SatisfiedTasksOpen, Waiting, Past
<1>2. CASE Next
  <2>1. \A x \in Actor : LoneOK(x)'
    BY <1>2, LoneStep DEF Next
  <2>2. ASSUME NEW x \in Actor, CommitFinish(x)
        PROVE  /\ SatisfiedTasksOpen'
               /\ \A t \in Task, b \in Blocker : <<t, b>> \in satisfied' => status'[t] # "none"
    <3>1. /\ op[x] \in {"complete", "cancel", "gate"} /\ FinishOK(x) /\ LoneOK(x)
          /\ satisfied' = satisfied \cup edges[x]
      BY <2>2 DEF CommitFinish, IInv, TypeOK, TxOK, IdleOK, FinishOK, RaiseOK, LoneInv
    <3>2. ASSUME NEW t \in Task, <<t, on[x]>> \in edges[x]
          PROVE  t \in done[x] \/ Past(t)
      BY <2>2, <3>1, <3>2 DEF CommitFinish, LoneOK
    <3>3. ASSUME NEW t \in Task, status'[t] = "blocked"
          PROVE  status[t] = "blocked" /\ t \notin done[x]
      BY <2>2, <3>3, FinishMoves DEF Leads, CommitFinish
    <3>4. SatisfiedTasksOpen'
      <4> SUFFICES ASSUME NEW t \in Task, status'[t] = "blocked" PROVE Waiting(t)' # {}
        BY DEF SatisfiedTasksOpen
      <4>1. status[t] = "blocked" /\ t \notin done[x]
        BY <3>3
      <4>2. PICK b \in Needs[t] : <<t, b>> \notin satisfied
        BY <4>1 DEF LoneInv, SatisfiedTasksOpen, Waiting
      <4>3. b \in Blocker
        BY SpecAssumption
      <4>4. <<t, b>> \notin edges[x]
        BY <3>1, <3>2, <4>1, <4>3 DEF FinishOK, Past
      <4>5. QED
        BY <3>1, <4>2, <4>4 DEF Waiting
    <3>5. ASSUME NEW t \in Task, NEW b \in Blocker, <<t, b>> \in satisfied' PROVE status'[t] # "none"
      <4>1. CASE <<t, b>> \in satisfied
        BY <2>2, <4>1, FinishMoves DEF LoneInv, Leads
      <4>2. CASE <<t, b>> \in edges[x]
        BY <2>2, <3>1, <3>2, <4>2, FinishMoves DEF FinishOK, Past, Leads, CommitFinish
      <4>3. QED
        BY <3>1, <3>5, <4>1, <4>2
    <3>6. QED
      BY <3>4, <3>5
  <2>3. ASSUME NEW x \in Actor, CommitRaise(x)
        PROVE  /\ SatisfiedTasksOpen'
               /\ \A t \in Task, b \in Blocker : <<t, b>> \in satisfied' => status'[t] # "none"
    <3>1. /\ op[x] = "raise" /\ LoneOK(x) /\ satisfied' = satisfied \cup (edges[x] \ waits[x])
      BY <2>3 DEF CommitRaise, IInv, TypeOK, TxOK, IdleOK, FinishOK, RaiseOK, LoneInv
    <3>2. \A t \in Task, b \in Blocker : <<t, b>> \in edges[x] \cup waits[x] => t \in done[x]
      BY <3>1 DEF LoneOK
    <3>3. ASSUME NEW t \in Task, status'[t] = "blocked" PROVE Waiting(t)' # {}
      <4>1. CASE t \in done[x]
        <5>1. PICK b \in Blocker : <<t, b>> \in waits[x]
          BY <2>3, <3>3, <4>1 DEF CommitRaise
        <5>2. status[t] = "none" /\ b \in Needs[t]
          BY <2>3, <3>1, <4>1, <5>1, RaiseMoves DEF LoneOK
        <5>3. <<t, b>> \notin satisfied
          BY <5>2 DEF LoneInv
        <5>4. QED
          BY <3>1, <5>1, <5>2, <5>3 DEF Waiting
      <4>2. CASE t \notin done[x]
        <5>1. PICK b \in Needs[t] : <<t, b>> \notin satisfied
          BY <2>3, <3>3, <4>2, RaiseMoves DEF LoneInv, SatisfiedTasksOpen, Waiting
        <5>2. b \in Blocker
          BY SpecAssumption
        <5>3. QED
          BY <3>1, <3>2, <4>2, <5>1, <5>2 DEF Waiting
      <4>3. QED
        BY <4>1, <4>2
    <3>4. ASSUME NEW t \in Task, NEW b \in Blocker, <<t, b>> \in satisfied' PROVE status'[t] # "none"
      <4>1. CASE t \in done[x]
        BY <2>3, <4>1, RaiseMoves
      <4>2. CASE t \notin done[x]
        BY <2>3, <3>1, <3>2, <3>4, <4>2, RaiseMoves DEF LoneInv
      <4>3. QED
        BY <4>1, <4>2
    <3>5. QED
      BY <3>3, <3>4 DEF SatisfiedTasksOpen
  <2>4. CASE ~ \E x \in Actor : CommitFinish(x) \/ CommitRaise(x)
    <3>1. UNCHANGED rows
      BY <2>4, OnlyCommitsWrite
    <3>2. QED
      BY <2>1, <3>1 DEF LoneInv, rows, SatisfiedTasksOpen, Waiting
  <2>5. QED
    BY <2>1, <2>2, <2>3, <2>4 DEF LoneInv
<1>3. QED
  BY <1>1, <1>2

\* Where no task waits on two things, as on the shipped pilot checklist, a task
\* opens as soon as its blocker is out of the way, whatever runs at the same time.
THEOREM LoneTasksOpen ==
  ASSUME OneBlockerEach
  PROVE  Spec => []SatisfiedTasksOpen
<1>1. IInv /\ LoneInv /\ [Next]_vars => LoneInv'
  BY LoneNext
<1>2. LoneInv => SatisfiedTasksOpen
  BY DEF LoneInv
<1>3. QED
  BY <1>1, <1>2, LoneInit, AlwaysInv, PTL DEF Spec
-----------------------------------------------------------------------------
(***************************************************************************)
(* One transaction at a time.  Until two have overlapped, the one that is  *)
(* open knows all there is to know: edges tell exactly what is over, the   *)
(* tasks it stamps are all that wait on what it satisfies (Waiters), and   *)
(* of them those nothing else holds up are read or written.                *)
(***************************************************************************)
Waiters(x) == { t \in Raised : on[x] \in Waiting(t) }

FinishTurn(x) == op[x] \in {"complete", "cancel", "gate"} =>
  /\ pc[x] \in {"match", "evaluate", "commit"} => edges[x] = {}
  /\ pc[x] = "evaluate" => reads[x] = Waiters(x)
  /\ pc[x] \in {"stamp", "unlock"} =>
       \A t \in Waiters(x) :
         /\ <<t, on[x]>> \in edges[x]
         /\ status[t] = "blocked" /\ Waiting(t) \subseteq {on[x]} => t \in reads[x] \cup done[x]
  /\ pc[x] = "commit" => Waiters(x) = {}
  /\ \A t \in Task, b \in Blocker : <<t, b>> \in edges[x] => t \in Raised

RaiseTurn(x) == op[x] = "raise" =>
  /\ reads[x] = gates
  /\ Acyclic(Raised \cup TasksOf(on[x]))
  /\ pc[x] = "raised" => done[x] = TasksOf(on[x])
  /\ \A t \in Task, b \in Blocker :
       /\ <<t, b>> \in edges[x] => t \in done[x]
       /\ <<t, b>> \in waits[x] => t \in done[x] /\ b \in Needs[t] /\ ~Over(b)

Alone == \A x, y \in Actor : pc[x] # "idle" /\ pc[y] # "idle" => x = y

EdgesTell ==
  /\ \A t \in Task, b \in Blocker : <<t, b>> \in satisfied => t \in Raised
  /\ \A t \in Raised : \A b \in Needs[t] : Over(b) => <<t, b>> \in satisfied

\* A list is raised after the tasks it names and all at once.
Whole == \A t \in Raised : Needs[t] \cap Task \subseteq Raised

Turn ==
  /\ Alone /\ EdgesTell /\ SatisfiedTasksOpen /\ Whole /\ Acyclic(Raised)
  /\ \A x \in Actor : FinishTurn(x) /\ RaiseTurn(x)

TurnInv == ~overlapped => Turn

LEMMA InitTurn == Init => Turn
BY DEF Init, Turn, Alone, EdgesTell, SatisfiedTasksOpen, Whole, Acyclic, FinishTurn, RaiseTurn, Raised

\* The rows as they were tell what they told.
LEMMA QuietTurn ==
  ASSUME Turn, UNCHANGED rows
  PROVE  EdgesTell' /\ SatisfiedTasksOpen' /\ Whole' /\ Acyclic(Raised)'
BY DEF Turn, rows, EdgesTell, SatisfiedTasksOpen, Whole, Acyclic, Raised, Over, Waiting

\* The statements of the one open transaction keep its account.
LEMMA BeginTurn ==
  ASSUME IInv, Turn, NEW x \in Actor, Beginning(x)
  PROVE  UNCHANGED rows /\ FinishTurn(x)' /\ RaiseTurn(x)'
<1>1. /\ pc[x] = "idle" /\ op[x] = "none" /\ reads[x] = {} /\ done[x] = {}
      /\ waits[x] = {} /\ edges[x] = {}
      /\ UNCHANGED <<rows, done, waits, edges>>
  BY DEF IInv, TxOK, IdleOK, Beginning, BeginFinish, BeginGate, BeginRaise, Begin
<1>2. CASE \E l \in List : BeginRaise(x, l)
  <2>1. PICK l \in List : BeginRaise(x, l)
    BY <1>2
  <2>2. /\ op'[x] = "raise" /\ pc'[x] = "insert" /\ on'[x] = l /\ reads'[x] = gates
        /\ Acyclic(Raised \cup TasksOf(l))
    BY <2>1 DEF BeginRaise, Begin, IInv, TypeOK
  <2>3. FinishTurn(x)'
    BY <2>2 DEF FinishTurn
  <2>4. RaiseTurn(x)'
    BY <1>1, <2>2 DEF RaiseTurn, rows, Raised, TasksOf, Acyclic
  <2>5. QED
    BY <1>1, <2>3, <2>4
<1>3. CASE ~ \E l \in List : BeginRaise(x, l)
  <2>1. op'[x] \in {"complete", "cancel", "gate"} /\ pc'[x] = "match"
    BY <1>3 DEF Beginning, BeginFinish, BeginGate, Begin, IInv, TypeOK
  <2>2. FinishTurn(x)' /\ RaiseTurn(x)'
    BY <1>1, <2>1 DEF FinishTurn, RaiseTurn
  <2>3. QED
    BY <1>1, <2>2
<1>4. QED
  BY <1>2, <1>3

LEMMA MatchTurn ==
  ASSUME IInv, Turn, NEW x \in Actor, Match(x)
  PROVE  UNCHANGED rows /\ FinishTurn(x)' /\ RaiseTurn(x)'
<1>1. /\ op[x] \in {"complete", "cancel", "gate"} /\ op'[x] = op[x] /\ edges'[x] = {}
      /\ reads'[x] = Waiters(x) /\ UNCHANGED <<rows, on>>
      /\ pc'[x] = IF Waiters(x) = {} THEN "commit" ELSE "evaluate"
  BY DEF Match, Waiters, IInv, TypeOK, TxOK, IdleOK, FinishOK, RaiseOK, Turn, FinishTurn
<1>2. Waiters(x)' = Waiters(x)
  BY <1>1 DEF Waiters, rows, Raised, Waiting
<1>3. FinishTurn(x)'
  BY <1>1, <1>2 DEF FinishTurn
<1>4. RaiseTurn(x)'
  BY <1>1 DEF RaiseTurn
<1>5. QED
  BY <1>1, <1>3, <1>4

LEMMA EvaluateTurn ==
  ASSUME IInv, Turn, NEW x \in Actor, Evaluate(x)
  PROVE  UNCHANGED rows /\ FinishTurn(x)' /\ RaiseTurn(x)'
<1>1. /\ op[x] \in {"complete", "cancel", "gate"} /\ op'[x] = op[x]
      /\ pc'[x] = "stamp" /\ reads[x] = Waiters(x)
      /\ reads'[x] = Unlocks(reads[x], on[x])
      /\ edges'[x] = { <<t, on[x]>> : t \in reads[x] } /\ UNCHANGED <<rows, on, done>>
  BY DEF Evaluate, IInv, TypeOK, TxOK, IdleOK, FinishOK, RaiseOK, Turn, FinishTurn
<1>2. Waiters(x)' = Waiters(x) /\ Raised' = Raised /\ \A t \in Task : Waiting(t)' = Waiting(t)
  BY <1>1 DEF Waiters, rows, Raised, Waiting
<1>3. FinishTurn(x)'
  <2>1. \A t \in Waiters(x) : <<t, on[x]>> \in edges'[x]
    BY <1>1
  <2>2. ASSUME NEW t \in Waiters(x), Waiting(t) \subseteq {on[x]} PROVE t \in reads'[x]
    BY <1>1, <2>2 DEF Unlocks
  <2>3. \A t \in Task, b \in Blocker : <<t, b>> \in edges'[x] => t \in Raised
    BY <1>1 DEF Waiters
  <2>4. \A t \in Waiters(x) : t \in Task
    BY DEF Waiters, Raised
  <2>5. QED
    BY <1>1, <1>2, <2>1, <2>2, <2>3, <2>4 DEF FinishTurn, rows
<1>4. RaiseTurn(x)'
  BY <1>1 DEF RaiseTurn
<1>5. QED
  BY <1>1, <1>3, <1>4

LEMMA StampTurn ==
  ASSUME IInv, Turn, NEW x \in Actor, Stamp(x)
  PROVE  UNCHANGED rows /\ FinishTurn(x)' /\ RaiseTurn(x)'
<1>1. /\ op[x] \in {"complete", "cancel", "gate"} /\ op'[x] = op[x]
      /\ pc[x] = "stamp" /\ pc'[x] = "unlock"
      /\ UNCHANGED <<rows, on, reads, done, edges>> /\ FinishTurn(x)
  BY DEF Stamp, IInv, TypeOK, TxOK, IdleOK, FinishOK, RaiseOK, Turn
<1>2. Waiters(x)' = Waiters(x) /\ Raised' = Raised /\ \A t \in Task : Waiting(t)' = Waiting(t)
  BY <1>1 DEF Waiters, rows, Raised, Waiting
<1>3. \A t \in Waiters(x) : t \in Task
  BY DEF Waiters, Raised
<1>4. FinishTurn(x)'
  BY <1>1, <1>2, <1>3 DEF FinishTurn, rows
<1>5. RaiseTurn(x)'
  BY <1>1 DEF RaiseTurn
<1>6. QED
  BY <1>1, <1>4, <1>5

LEMMA UnlockTurn ==
  ASSUME IInv, Turn, NEW x \in Actor, Unlock(x)
  PROVE  UNCHANGED rows /\ FinishTurn(x)' /\ RaiseTurn(x)'
<1>1. PICK u \in reads[x] :
        /\ reads' = [reads EXCEPT ![x] = @ \ {u}]
        /\ done' = [done EXCEPT ![x] = IF status[u] = "blocked" THEN @ \cup {u} ELSE @]
        /\ pc[x] = "unlock" /\ UNCHANGED <<rows, pc, op, on, edges>>
  BY DEF Unlock
<1>2. /\ op[x] \in {"complete", "cancel", "gate"} /\ op'[x] = op[x]
      /\ pc'[x] = "unlock" /\ FinishTurn(x)
  BY <1>1 DEF IInv, TypeOK, TxOK, IdleOK, FinishOK, RaiseOK, Turn
<1>3. Waiters(x)' = Waiters(x) /\ Raised' = Raised /\ \A t \in Task : Waiting(t)' = Waiting(t)
  BY <1>1 DEF Waiters, rows, Raised, Waiting
<1>4. \A t \in Waiters(x) : t \in Task
  BY DEF Waiters, Raised
<1>5. ASSUME NEW t \in Task, status[t] = "blocked", t \in reads[x] \cup done[x]
      PROVE  t \in reads'[x] \cup done'[x]
  BY <1>1, <1>5 DEF IInv, TypeOK
<1>6. FinishTurn(x)'
  BY <1>1, <1>2, <1>3, <1>4, <1>5 DEF FinishTurn, rows
<1>7. RaiseTurn(x)'
  BY <1>1, <1>2 DEF RaiseTurn
<1>8. QED
  BY <1>1, <1>6, <1>7

LEMMA ReadBlockersTurn ==
  ASSUME IInv, Turn, NEW x \in Actor, NEW t \in Task, ReadBlockers(x, t)
  PROVE  UNCHANGED rows /\ FinishTurn(x)' /\ RaiseTurn(x)'
<1> DEFINE new == Siblings(t) \cup Unfinished(t) \cup ((Needs[t] \cap Gate) \ reads[x])
<1>1. /\ op[x] = "raise" /\ op'[x] = "raise" /\ pc'[x] = "edges" /\ t \in TasksOf(on[x])
      /\ done'[x] = done[x] \cup {t}
      /\ edges'[x] = edges[x] \cup ({t} \X Needs[t])
      /\ waits'[x] = waits[x] \cup ({t} \X new)
      /\ UNCHANGED <<rows, on, reads>> /\ RaiseTurn(x) /\ RaiseOK(x)
  BY DEF ReadBlockers, IInv, TypeOK, TxOK, IdleOK, FinishOK, RaiseOK, Turn
<1>2. ASSUME NEW b \in new PROVE b \in Needs[t] /\ ~Over(b)
  <2>1. CASE b \in Siblings(t)
    <3>1. b \in TasksOf(on[x]) /\ b \in Task
      BY <1>1, <2>1 DEF Siblings, TasksOf
    <3>2. status[b] = "none" /\ b \notin gates
      BY <1>1, <3>1, SpecAssumption DEF RaiseOK, IInv, TypeOK
    <3>3. QED
      BY <2>1, <3>2 DEF Over, Siblings
  <2>2. CASE b \in Unfinished(t)
    BY <2>2, SpecAssumption DEF Unfinished, Existing, Over, IInv, TypeOK
  <2>3. CASE b \in (Needs[t] \cap Gate) \ reads[x]
    BY <1>1, <2>3, SpecAssumption DEF RaiseTurn, Over
  <2>4. QED
    BY <2>1, <2>2, <2>3
<1> HIDE DEF new
<1>3. \A u \in Task, b \in Blocker :
        /\ <<u, b>> \in edges'[x] => u \in done'[x]
        /\ <<u, b>> \in waits'[x] => u \in done'[x] /\ b \in Needs[u] /\ ~Over(b)
  BY <1>1, <1>2 DEF RaiseTurn
<1>4. Acyclic(Raised \cup TasksOf(on[x]))' /\ \A b \in Blocker : Over(b)' <=> Over(b)
  BY <1>1 DEF RaiseTurn, rows, Raised, TasksOf, Acyclic, Over
<1>5. RaiseTurn(x)'
  BY <1>1, <1>3, <1>4 DEF RaiseTurn, rows
<1>6. FinishTurn(x)'
  BY <1>1 DEF FinishTurn
<1>7. QED
  BY <1>1, <1>5, <1>6

LEMMA InsertTaskTurn ==
  ASSUME IInv, Turn, NEW x \in Actor, InsertTask(x)
  PROVE  UNCHANGED rows /\ FinishTurn(x)' /\ RaiseTurn(x)'
<1>1. /\ op[x] = "raise" /\ op'[x] = "raise"
      /\ pc'[x] = (IF done[x] = TasksOf(on[x]) THEN "raised" ELSE "insert")
      /\ UNCHANGED <<rows, on, reads, done, waits, edges>> /\ RaiseTurn(x)
  BY DEF InsertTask, IInv, TypeOK, TxOK, IdleOK, FinishOK, RaiseOK, Turn
<1>2. Acyclic(Raised \cup TasksOf(on[x]))' /\ \A b \in Blocker : Over(b)' <=> Over(b)
  BY <1>1 DEF RaiseTurn, rows, Raised, TasksOf, Acyclic, Over
<1>3. TasksOf(on[x])' = TasksOf(on[x])
  BY <1>1 DEF TasksOf
<1>4. RaiseTurn(x)'
  BY <1>1, <1>2, <1>3 DEF RaiseTurn, rows
<1>5. FinishTurn(x)'
  BY <1>1 DEF FinishTurn
<1>6. QED
  BY <1>1, <1>4, <1>5

\* Committing the end of a task or the opening of a gate: what x was about is over, and
\* of what waited on it alone nothing stays blocked.
LEMMA OverAfterFinish ==
  ASSUME IInv, NEW x \in Actor, CommitFinish(x), NEW b \in Blocker
  PROVE  Over(b)' <=> Over(b) \/ b = on[x]
<1>1. /\ op[x] \in {"complete", "cancel", "gate"} /\ FinishOK(x) /\ TypeOK
      /\ gates' = (IF op[x] = "gate" THEN gates \cup {on[x]} ELSE gates)
  BY DEF CommitFinish, IInv, TypeOK, TxOK, IdleOK, FinishOK, RaiseOK
<1>2. CASE b \in Gate
  BY <1>1, <1>2, SpecAssumption DEF Over, FinishOK, TypeOK
<1>3. CASE b \in Task
  <2>1. b \notin gates /\ b \notin gates'
    BY <1>1, <1>3, SpecAssumption DEF FinishOK, TypeOK
  <2>2. status'[b] \in {"done", "cancelled"} <=> status[b] \in {"done", "cancelled"} \/ b = on[x]
    BY <1>1, <1>3, FinishMoves, SpecAssumption DEF Leads, FinishOK
  <2>3. QED
    BY <1>3, <2>1, <2>2 DEF Over
<1>4. QED
  BY <1>2, <1>3 DEF Blocker

\* Which edges a committed finish leaves to wait on: all but those on what is over.
LEMMA WaitingAfterFinish ==
  ASSUME IInv, Turn, NEW x \in Actor, CommitFinish(x), NEW t \in Raised
  PROVE  Waiting(t)' = Waiting(t) \ {on[x]}
<1>1. /\ op[x] \in {"complete", "cancel", "gate"} /\ FinishOK(x) /\ FinishTurn(x)
      /\ satisfied' = satisfied \cup edges[x] /\ pc[x] \in {"unlock", "commit"}
  BY DEF CommitFinish, IInv, TypeOK, TxOK, IdleOK, FinishOK, RaiseOK, Turn
<1>2. t \in Task /\ \A b \in Needs[t] : b \in Blocker
  BY SpecAssumption DEF Raised
<1>3. ASSUME NEW b \in Needs[t], <<t, b>> \notin satisfied
      PROVE  <<t, b>> \in edges[x] <=> b = on[x]
  <2>1. b = on[x] => t \in Waiters(x)
    BY <1>3 DEF Waiters, Waiting
  <2>2. QED
    BY <1>1, <1>2, <2>1 DEF FinishOK, FinishTurn
<1>4. QED
  BY <1>1, <1>3 DEF Waiting

\* Raised tasks that nothing holds up once x has committed.
LEMMA OpenedByFinish ==
  ASSUME IInv, Turn, NEW x \in Actor, CommitFinish(x), NEW t \in Task, status[t] = "blocked",
         Waiting(t) \subseteq {on[x]}
  PROVE  t \in done[x]
<1>1. t \in Raised
  BY DEF Raised
<1>2. t \in Waiters(x)
  BY <1>1 DEF Turn, SatisfiedTasksOpen, Waiters
<1>3. pc[x] = "unlock" /\ reads[x] = {} /\ FinishTurn(x) /\ op[x] \in {"complete", "cancel", "gate"}
  BY <1>2 DEF CommitFinish, IInv, TypeOK, TxOK, IdleOK, FinishOK, RaiseOK, Turn, FinishTurn
<1>4. QED
  BY <1>2, <1>3 DEF FinishTurn

LEMMA CommitFinishTurn ==
  ASSUME IInv, Turn, NEW x \in Actor, CommitFinish(x)
  PROVE  EdgesTell' /\ SatisfiedTasksOpen' /\ Whole' /\ Acyclic(Raised)' /\ op'[x] = "none"
<1>1. /\ op[x] \in {"complete", "cancel", "gate"} /\ FinishOK(x) /\ FinishTurn(x)
      /\ satisfied' = satisfied \cup edges[x]
  BY DEF CommitFinish, IInv, TypeOK, TxOK, IdleOK, FinishOK, RaiseOK, Turn
<1>2. Raised' = Raised
  <2>1. ASSUME NEW t \in Task PROVE status'[t] = "none" <=> status[t] = "none"
    BY FinishMoves DEF Leads, Allowed
  <2>2. QED
    BY <2>1 DEF Raised
<1>a. op'[x] = "none"
  BY DEF CommitFinish, End, IInv, TypeOK
<1>3. EdgesTell'
  <2>1. ASSUME NEW t \in Task, NEW b \in Blocker, <<t, b>> \in satisfied' PROVE t \in Raised'
    BY <1>1, <1>2, <2>1 DEF Turn, EdgesTell, FinishTurn
  <2>2. ASSUME NEW t \in Raised', NEW b \in Needs[t], Over(b)' PROVE <<t, b>> \in satisfied'
    <3>1. t \in Raised /\ t \in Task /\ b \in Blocker
      BY <1>2, SpecAssumption DEF Raised
    <3>2. b \notin Waiting(t)'
      BY <2>2, <3>1, OverAfterFinish, WaitingAfterFinish DEF Turn, EdgesTell, Waiting
    <3>3. QED
      BY <3>2 DEF Waiting
  <2>3. QED
    BY <2>1, <2>2 DEF EdgesTell
<1>4. SatisfiedTasksOpen'
  <2> SUFFICES ASSUME NEW t \in Task, status'[t] = "blocked" PROVE Waiting(t)' # {}
    BY DEF SatisfiedTasksOpen
  <2>1. status[t] = "blocked" /\ t \in Raised
    BY FinishMoves DEF Leads, Raised
  <2>2. t \notin done[x]
    BY DEF CommitFinish, Leads
  <2>3. QED
    BY <2>1, <2>2, OpenedByFinish, WaitingAfterFinish
<1>5. QED
  BY <1>a, <1>2, <1>3, <1>4 DEF Turn, Whole, Acyclic

\* Committing a list: what it raises is over nowhere, and waits on what its edges say.
LEMMA OverAfterRaise ==
  ASSUME IInv, NEW x \in Actor, CommitRaise(x), NEW b \in Blocker
  PROVE  Over(b)' <=> Over(b)
<1>1. gates' = gates
  BY DEF CommitRaise
<1>2. QED
  BY <1>1, RaiseMoves DEF Over

LEMMA WaitingAfterRaise ==
  ASSUME IInv, Turn, NEW x \in Actor, CommitRaise(x)
  PROVE  /\ \A t \in Raised : t \notin done[x] /\ Waiting(t)' = Waiting(t)
         /\ \A t \in done[x] : Waiting(t)' = { b \in Needs[t] : <<t, b>> \in waits[x] }
         /\ \A t \in done[x] : \A b \in Needs[t] : <<t, b>> \in waits[x] <=> ~Over(b)
<1>1. /\ op[x] = "raise" /\ RaiseOK(x) /\ RaiseTurn(x)
      /\ satisfied' = satisfied \cup (edges[x] \ waits[x])
  BY DEF CommitRaise, IInv, TypeOK, TxOK, IdleOK, FinishOK, RaiseOK, Turn
<1>2. \A t \in Task : \A b \in Needs[t] : b \in Blocker
  BY SpecAssumption
<1>3. \A t \in done[x] : t \in Task /\ t \notin Raised
  BY <1>1 DEF RaiseOK, Raised, TasksOf
<1>4. ASSUME NEW t \in Raised PROVE t \notin done[x] /\ Waiting(t)' = Waiting(t)
  <2>1. t \in Task /\ t \notin done[x]
    BY <1>3 DEF Raised
  <2>2. \A b \in Needs[t] : <<t, b>> \notin edges[x]
    BY <1>1, <1>2, <2>1 DEF RaiseTurn
  <2>3. QED
    BY <1>1, <2>1, <2>2 DEF Waiting
<1>5. ASSUME NEW t \in done[x], NEW b \in Needs[t]
      PROVE  /\ <<t, b>> \in satisfied' <=> <<t, b>> \notin waits[x]
             /\ <<t, b>> \in waits[x] <=> ~Over(b)
  <2>1. t \in Task /\ b \in Blocker /\ <<t, b>> \in edges[x] /\ <<t, b>> \notin satisfied
    BY <1>1, <1>2, <1>3 DEF RaiseOK, Turn, EdgesTell
  <2>2. QED
    BY <1>1, <2>1 DEF RaiseOK, RaiseTurn
<1>6. QED
  BY <1>4, <1>5 DEF Waiting

LEMMA CommitRaiseTurn ==
  ASSUME IInv, Turn, NEW x \in Actor, CommitRaise(x)
  PROVE  EdgesTell' /\ SatisfiedTasksOpen' /\ Whole' /\ Acyclic(Raised)' /\ op'[x] = "none"
<1>0. /\ op[x] = "raise" /\ pc[x] = "raised" /\ RaiseOK(x) /\ RaiseTurn(x)
      /\ satisfied' = satisfied \cup (edges[x] \ waits[x])
  BY DEF CommitRaise, IInv, TypeOK, TxOK, IdleOK, FinishOK, RaiseOK, Turn
<1>1. /\ op[x] = "raise" /\ RaiseOK(x) /\ RaiseTurn(x) /\ done[x] = TasksOf(on[x])
      /\ satisfied' = satisfied \cup (edges[x] \ waits[x])
  BY <1>0 DEF RaiseTurn
<1>a. op'[x] = "none"
  BY DEF CommitRaise, End, IInv, TypeOK
<1>2. Raised' = Raised \cup done[x]
  <2>1. done[x] \subseteq Task
    BY DEF IInv, TypeOK
  <2>2. QED
    BY <2>1, RaiseMoves DEF Raised
<1>3. EdgesTell'
  <2>1. ASSUME NEW t \in Task, NEW b \in Blocker, <<t, b>> \in satisfied' PROVE t \in Raised'
    BY <1>1, <1>2, <2>1 DEF Turn, EdgesTell, RaiseTurn
  <2>2. ASSUME NEW t \in Raised', NEW b \in Needs[t], Over(b)' PROVE <<t, b>> \in satisfied'
    <3>1. t \in Task /\ b \in Blocker
      BY SpecAssumption DEF Raised
    <3>2. Over(b)
      BY <2>2, <3>1, OverAfterRaise
    <3>3. b \notin Waiting(t)'
      BY <1>2, <3>2, WaitingAfterRaise DEF Turn, EdgesTell, Waiting
    <3>4. QED
      BY <3>3 DEF Waiting
  <2>3. QED
    BY <2>1, <2>2 DEF EdgesTell
<1>4. SatisfiedTasksOpen'
  <2> SUFFICES ASSUME NEW t \in Task, status'[t] = "blocked" PROVE Waiting(t)' # {}
    BY DEF SatisfiedTasksOpen
  <2>1. CASE t \in done[x]
    <3>1. PICK b \in Blocker : <<t, b>> \in waits[x]
      BY <2>1 DEF CommitRaise
    <3>2. b \in Needs[t]
      BY <1>1, <3>1 DEF RaiseTurn
    <3>3. QED
      BY <2>1, <3>1, <3>2, WaitingAfterRaise
  <2>2. CASE t \notin done[x]
    <3>1. status[t] = "blocked" /\ t \in Raised
      BY <2>2, RaiseMoves DEF Raised
    <3>2. QED
      BY <3>1, WaitingAfterRaise DEF Turn, SatisfiedTasksOpen
  <2>3. QED
    BY <2>1, <2>2
<1>5. Whole'
  BY <1>1, <1>2 DEF Turn, Whole, RaiseOK, Existing, Siblings, TasksOf
<1>6. QED
  BY <1>1, <1>a, <1>2, <1>3, <1>4, <1>5 DEF RaiseTurn, Acyclic

LEMMA AbortTurn ==
  ASSUME IInv, Turn, NEW x \in Actor, Abort(x)
  PROVE  UNCHANGED rows /\ op'[x] = "none"
BY DEF Abort, End, IInv, TypeOK

LEMMA TurnStep ==
  ASSUME IInv, Turn, NEW x \in Actor, Alone',
         Beginning(x) \/ Satisfying(x) \/ Raising(x) \/ Abort(x)
  PROVE  Turn'
<1>1. ASSUME op'[x] = "none" PROVE FinishTurn(x)' /\ RaiseTurn(x)'
  BY <1>1 DEF FinishTurn, RaiseTurn
<1>2. ASSUME NEW y \in Actor \ {x} PROVE FinishTurn(y)' /\ RaiseTurn(y)'
  <2>1. pc[x] # "idle" \/ pc'[x] # "idle"
    BY DEF Beginning, BeginFinish, BeginGate, BeginRaise, Begin, Satisfying, Match, Evaluate, Stamp,
           Unlock, CommitFinish, Raising, ReadBlockers, InsertTask, CommitRaise, Abort, IInv, TypeOK
  <2>2. Same(y)
    BY OwnStep DEF IInv
  <2>3. pc[y] = "idle"
    BY <2>1, <2>2 DEF Turn, Alone, Same
  <2>4. op'[y] = "none"
    BY <2>2, <2>3 DEF IInv, TxOK, IdleOK, Same
  <2>5. QED
    BY <2>4 DEF FinishTurn, RaiseTurn
<1>3. EdgesTell' /\ SatisfiedTasksOpen' /\ Whole' /\ Acyclic(Raised)' /\ FinishTurn(x)' /\ RaiseTurn(x)'
  <2>1. CASE UNCHANGED rows /\ FinishTurn(x)' /\ RaiseTurn(x)'
    BY <2>1, QuietTurn
  <2>2. CASE Beginning(x)
    BY <2>1, <2>2, BeginTurn
  <2>3. CASE Satisfying(x)
    BY <1>1, <2>1, <2>3, MatchTurn, EvaluateTurn, StampTurn, UnlockTurn, CommitFinishTurn DEF Satisfying
  <2>4. CASE Raising(x)
    BY <1>1, <2>1, <2>4, ReadBlockersTurn, InsertTaskTurn, CommitRaiseTurn DEF Raising
  <2>5. CASE Abort(x)
    BY <1>1, <2>1, <2>5, AbortTurn
  <2>6. QED
    BY <2>2, <2>3, <2>4, <2>5
<1>4. QED
  BY <1>2, <1>3 DEF Turn

LEMMA NextTurn == IInv /\ TurnInv /\ [Next]_vars => TurnInv'
<1> SUFFICES ASSUME IInv, TurnInv, [Next]_vars PROVE TurnInv'
  OBVIOUS
<1>1. CASE UNCHANGED vars
  BY <1>1 DEF vars, rows, TurnInv, Turn, Alone, EdgesTell, SatisfiedTasksOpen, Whole, Acyclic, FinishTurn,
              RaiseTurn, Raised, Over, Waiting, Waiters
<1>2. CASE Next
  <2> SUFFICES ASSUME ~overlapped' PROVE Turn'
    BY DEF TurnInv
  <2>1. ~overlapped /\ ~ \E x, y \in Open' : x # y
    BY <1>2 DEF Next
  <2>2. Alone'
    BY <2>1 DEF Alone, Open
  <2>3. QED
    BY <1>2, <2>1, <2>2, TurnStep DEF Next, TurnInv
<1>3. QED
  BY <1>1, <1>2

LEMMA AlwaysTurn == Spec => []TurnInv
<1>1. Init => TurnInv
  BY InitTurn DEF TurnInv
<1>2. QED
  BY <1>1, NextTurn, AlwaysInv, PTL DEF Spec

\* As long as transactions come one at a time, a task is unblocked by whoever takes the last
\* thing it waits on out of the way.
THEOREM AlwaysInTurnOpen == Spec => []InTurnTasksOpen
<1>1. TurnInv => InTurnTasksOpen
  BY DEF TurnInv, Turn, InTurnTasksOpen
<1>2. QED
  BY <1>1, AlwaysTurn, PTL

\* ... no task waits on a gate that has opened or on a task that is over,
THEOREM AlwaysInTurnCurrent == Spec => []InTurnNothingWaitsOnThePast
<1>1. IInv /\ TurnInv => InTurnNothingWaitsOnThePast
  <2> SUFFICES ASSUME IInv, Turn, NEW t \in Raised, NEW b \in Waiting(t)
               PROVE  b \notin gates /\ (b \in Task => status[b] \in {"blocked", "open"})
    BY DEF TurnInv, InTurnNothingWaitsOnThePast, NothingWaitsOnThePast
  <2>1. b \in Needs[t] /\ ~Over(b)
    BY DEF Waiting, Turn, EdgesTell
  <2>2. b \in Task => status[b] # "none"
    BY <2>1 DEF Turn, Whole, Raised
  <2>3. QED
    BY <2>1, <2>2 DEF Over, IInv, TypeOK
<1>2. QED
  BY <1>1, AlwaysTurn, AlwaysInv, PTL

\* ... and with every gate opened some task can be worked on: of the tasks that are blocked
\* one waits on none of the others, as their graph has no cycle.
THEOREM AlwaysSomeCanStart == Spec => []InTurnSomethingCanStart
<1>1. IInv /\ TurnInv => InTurnSomethingCanStart
  <2> DEFINE stuck == { t \in Task : status[t] = "blocked" }
  <2> SUFFICES ASSUME IInv, Turn, gates = Gate, stuck # {}
               PROVE  \E t \in Task : status[t] = "open"
    BY DEF TurnInv, InTurnSomethingCanStart, SomethingCanStart
  <2>1. stuck \in (SUBSET Raised) \ {{}}
    BY DEF Raised
  <2>2. PICK t \in stuck : Needs[t] \cap stuck = {}
    BY <2>1 DEF Turn, Acyclic
  <2>3. PICK b \in Waiting(t) : TRUE
    BY <2>2 DEF Turn, SatisfiedTasksOpen
  <2>4. b \in Needs[t] /\ ~Over(b) /\ t \in Raised
    BY <2>1, <2>3 DEF Turn, EdgesTell, Waiting
  <2>5. b \in Task /\ status[b] # "none"
    BY <2>4, SpecAssumption DEF Over, Turn, Whole, Raised, Blocker
  <2>6. status[b] = "open"
    BY <2>2, <2>4, <2>5 DEF Over, IInv, TypeOK
  <2>7. QED
    BY <2>5, <2>6
<1>2. QED
  BY <1>1, AlwaysTurn, AlwaysInv, PTL
-----------------------------------------------------------------------------
\* What TaskBoard asks of a blocker is that it is over.
LEMMA MetMeans ==
  ASSUME NEW t \in Task, NEW st, NEW gs \in SUBSET Gate
  PROVE  Board!Met(t, st, gs) <=>
           \A b \in Needs[t] : b \in gs \/ (b \in Task /\ st[b] \in {"done", "cancelled"})
BY SpecAssumption DEF Board!Met, Blocker

\* An edge waits exactly for what is not over.
LEMMA WaitsIffNotOver ==
  ASSUME IInv, Turn, NEW t \in Raised, NEW b \in Needs[t]
  PROVE  b \in Waiting(t) <=> ~Over(b)
<1>1. t \in Task /\ b \in Blocker
  BY SpecAssumption DEF Raised
<1>2. QED
  BY <1>1 DEF IInv, RowsOK, Turn, EdgesTell, Waiting

\* A committed finish leaves every task where TaskBoard settles it.
LEMMA SettledByFinish ==
  ASSUME IInv, Turn, NEW x \in Actor, CommitFinish(x)
  PROVE  status' = Board!Settled([t \in Task |-> IF t = on[x] THEN Leads(op[x]) ELSE status[t]],
                                 gates')
<1> DEFINE st == [t \in Task |-> IF t = on[x] THEN Leads(op[x]) ELSE status[t]]
<1>1. /\ op[x] \in {"complete", "cancel", "gate"} /\ FinishOK(x) /\ TypeOK /\ RowsOK
      /\ status' \in [Task -> {"none", "blocked", "open", "done", "cancelled"}]
  BY CommitFinishInv DEF CommitFinish, IInv, TypeOK, TxOK, IdleOK, FinishOK, RaiseOK
<1>2. gates' \in SUBSET Gate
  BY CommitFinishInv DEF IInv, TypeOK
<1>3. \A b \in Task : st[b] \in {"done", "cancelled"} <=> status'[b] \in {"done", "cancelled"}
  BY <1>1, FinishMoves DEF Leads
<1>4. ASSUME NEW t \in Raised PROVE Board!Met(t, st, gates') <=> Waiting(t) \subseteq {on[x]}
  <2>1. t \in Task /\ \A b \in Needs[t] : b \in Blocker
    BY SpecAssumption DEF Raised
  <2> HIDE DEF st
  <2>2. Board!Met(t, st, gates') <=> \A b \in Needs[t] : Over(b)'
    BY <1>2, <1>3, <2>1, MetMeans DEF Over
  <2>3. \A b \in Needs[t] : Over(b)' <=> b \notin Waiting(t) \/ b = on[x]
    BY <2>1, OverAfterFinish, WaitsIffNotOver
  <2>4. QED
    BY <2>2, <2>3 DEF Waiting
<1>5. ASSUME NEW t \in Task
      PROVE  status'[t] = IF st[t] \in {"blocked", "open"}
                            THEN IF Board!Met(t, st, gates') THEN "open" ELSE "blocked"
                            ELSE st[t]
  <2>1. CASE t = on[x]
    BY <1>1, <2>1 DEF CommitFinish, Leads
  <2>2. CASE t # on[x] /\ status[t] = "blocked"
    <3>1. t \in Raised /\ st[t] = "blocked"
      BY <2>2 DEF Raised
    <3>2. t \in done[x] <=> Waiting(t) \subseteq {on[x]}
      BY <1>1, <2>2, OpenedByFinish DEF FinishOK, Freed
    <3>3. status'[t] = IF t \in done[x] THEN "open" ELSE "blocked"
      BY <2>2 DEF CommitFinish
    <3>4. QED
      BY <1>4, <3>1, <3>2, <3>3
  <2>3. CASE t # on[x] /\ status[t] = "open"
    <3>1. t \in Raised /\ st[t] = "open" /\ Waiting(t) = {}
      BY <1>1, <2>3 DEF Raised, RowsOK
    <3>2. status'[t] = "open"
      BY <2>3, FinishMoves
    <3>3. QED
      BY <1>4, <3>1, <3>2
  <2>4. CASE t # on[x] /\ status[t] \notin {"blocked", "open"}
    <3>1. st[t] = status[t] /\ status'[t] = status[t]
      BY <2>4, FinishMoves
    <3>2. QED
      BY <2>4, <3>1
  <2>5. QED
    BY <2>1, <2>2, <2>3, <2>4
<1> HIDE DEF st
<1>6. status' = [t \in Task |-> status'[t]]
  BY <1>1
<1>7. status' = Board!Settled(st, gates')
  BY <1>5, <1>6 DEF Board!Settled
<1>8. QED
  BY <1>7 DEF st

LEMMA FinishOnBoard ==
  ASSUME IInv, Turn, NEW x \in Actor, CommitFinish(x)
  PROVE  Board!Next
<1>1. /\ op[x] \in {"complete", "cancel", "gate"} /\ FinishOK(x) /\ TypeOK
      /\ gates' = (IF op[x] = "gate" THEN gates \cup {on[x]} ELSE gates)
  BY DEF CommitFinish, IInv, TypeOK, TxOK, IdleOK, FinishOK, RaiseOK
<1>2. CASE op[x] = "gate"
  <2>1. on[x] \in Gate /\ on[x] \notin Task
    BY <1>1, <1>2, SpecAssumption DEF FinishOK
  <2>2. [t \in Task |-> IF t = on[x] THEN Leads(op[x]) ELSE status[t]] = status
    BY <1>1, <2>1 DEF TypeOK
  <2>3. Board!OpenGate(on[x])
    BY <1>1, <1>2, <2>2, SettledByFinish DEF Board!OpenGate
  <2>4. QED
    BY <2>1, <2>3 DEF Board!Next
<1>3. CASE op[x] # "gate"
  <2>1. on[x] \in Task /\ status[on[x]] \in Allowed(op[x]) /\ gates' = gates
    BY <1>1, <1>3 DEF FinishOK
  <2>2. [t \in Task |-> IF t = on[x] THEN Leads(op[x]) ELSE status[t]]
          = [status EXCEPT ![on[x]] = Leads(op[x])]
    BY <1>1, <2>1 DEF TypeOK
  <2>3. Board!Finish(on[x])
    BY <1>1, <1>3, <2>1, <2>2, SettledByFinish DEF Board!Finish, Leads, Allowed
  <2>4. QED
    BY <2>1, <2>3 DEF Board!Next
<1>4. QED
  BY <1>2, <1>3

LEMMA RaiseOnBoard ==
  ASSUME IInv, Turn, NEW x \in Actor, CommitRaise(x)
  PROVE  Board!Next
<1> DEFINE st == [t \in Task |-> IF ListOf[t] = on[x] THEN "blocked" ELSE status[t]]
<1>1. /\ op[x] = "raise" /\ pc[x] = "raised" /\ RaiseOK(x) /\ RaiseTurn(x) /\ TypeOK /\ RowsOK
      /\ gates' = gates /\ done[x] \subseteq Task
      /\ status' = [t \in Task |-> IF t \notin done[x] THEN status[t]
                                   ELSE IF \E b \in Blocker : <<t, b>> \in waits[x]
                                   THEN "blocked" ELSE "open"]
  BY DEF CommitRaise, IInv, TypeOK, TxOK, IdleOK, FinishOK, RaiseOK, Turn
<1>2. \A t \in Task : ListOf[t] = on[x] <=> t \in done[x]
  BY <1>1 DEF RaiseTurn, TasksOf
<1>3. on[x] \in List /\ \A t \in done[x] : status[t] = "none"
  BY <1>1 DEF RaiseOK
<1>4. ASSUME NEW t \in Task PROVE Board!Met(t, st, gates) <=> \A b \in Needs[t] : Over(b)
  <2>1. \A b \in Task : st[b] \in {"done", "cancelled"} <=> status[b] \in {"done", "cancelled"}
    BY <1>2, <1>3
  <2> HIDE DEF st
  <2>2. QED
    BY <1>1, <2>1, MetMeans DEF Over, TypeOK
<1>5. ASSUME NEW t \in Task
      PROVE  status'[t] = IF st[t] \in {"blocked", "open"}
                            THEN IF Board!Met(t, st, gates) THEN "open" ELSE "blocked"
                            ELSE st[t]
  <2>1. CASE t \in done[x]
    <3>1. (\E b \in Blocker : <<t, b>> \in waits[x]) <=> ~ \A b \in Needs[t] : Over(b)
      <4>1. \A b \in Needs[t] : b \in Blocker
        BY SpecAssumption
      <4>2. QED
        BY <1>1, <2>1, <4>1, WaitingAfterRaise DEF RaiseTurn
    <3>2. st[t] = "blocked"
      BY <1>2, <2>1
    <3>3. QED
      BY <1>1, <1>4, <2>1, <3>1, <3>2
  <2>2. CASE t \notin done[x] /\ status[t] \in {"blocked", "open"}
    <3>1. t \in Raised /\ st[t] = status[t] /\ status'[t] = status[t]
      BY <1>1, <1>2, <2>2 DEF Raised
    <3>2. status[t] = "open" <=> Waiting(t) = {}
      BY <1>1, <2>2 DEF RowsOK, Turn, SatisfiedTasksOpen
    <3>3. Waiting(t) = {} <=> \A b \in Needs[t] : Over(b)
      BY <3>1, WaitsIffNotOver DEF Waiting
    <3>4. QED
      BY <1>4, <2>2, <3>1, <3>2, <3>3
  <2>3. CASE t \notin done[x] /\ status[t] \notin {"blocked", "open"}
    BY <1>1, <1>2, <2>3
  <2>4. QED
    BY <2>1, <2>2, <2>3
<1>6. \A t \in Task : ListOf[t] = on[x] => status[t] = "none"
  BY <1>2, <1>3
<1> HIDE DEF st
<1>7. status' = [t \in Task |-> status'[t]]
  BY <1>1
<1>8. status' = Board!Settled(st, gates)
  BY <1>5, <1>7 DEF Board!Settled
<1>9. Board!Raise(on[x])
  BY <1>1, <1>6, <1>8 DEF Board!Raise, st
<1>10. QED
  BY <1>3, <1>9 DEF Board!Next

LEMMA BoardStep ==
  ASSUME IInv, TurnInv, [Next]_vars
  PROVE  [overlapped' \/ Board!Next]_<<status, gates>>
<1> SUFFICES ASSUME ~overlapped', ~ UNCHANGED <<status, gates>> PROVE Board!Next
  OBVIOUS
<1>1. Turn
  BY DEF TurnInv, Next, vars
<1>2. PICK x \in Actor : CommitFinish(x) \/ CommitRaise(x)
  BY OnlyCommitsWrite DEF rows
<1>3. QED
  BY <1>1, <1>2, FinishOnBoard, RaiseOnBoard

\* Until two transactions overlap, what the engine does to the tasks and the gates of a case is
\* what TaskBoard promises: a task is open as soon as all it waits on is over, and never before.
THEOREM TaskBoardImplemented == Spec => InTurnImplementsTaskBoard
<1>1. Init => Board!Init
  BY DEF Init, Board!Init
<1>2. QED
  BY <1>1, BoardStep, AlwaysInv, AlwaysTurn, PTL DEF Spec, InTurnImplementsTaskBoard
=============================================================================
