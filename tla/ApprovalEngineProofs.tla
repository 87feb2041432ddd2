------------------------ MODULE ApprovalEngineProofs ------------------------
(***************************************************************************)
(* Proofs about ApprovalEngine, for every set of cases, requests, people   *)
(* and calls and every valid definition.  Type correctness needs to know   *)
(* that a queued effect names a committed transition (QueuedIsTaken); the  *)
(* other invariants need the row lock of a decision (LockHeld), and that a *)
(* chase being handled is the first to find its request settled (Chases).  *)
(***************************************************************************)
EXTENDS ApprovalEngine, SequenceTheorems, TLAPS

\* A queued effect belongs to a committed transition that names it.
QueuedIsTaken ==
  \A m \in queue : /\ m[2] \in 1 .. Len(hist[m[1]])
                   /\ m[3] = "open" => hist[m[1]][m[2]].tr \in DOMAIN Opens

\* A decision in progress holds a pending request, alone.
LockHeld ==
  /\ \A c \in Call : deciding[c] # NoRequest => Pending(deciding[c])
  /\ \A c, d \in Call : (deciding[c] = deciding[d] /\ deciding[c] # NoRequest) => c = d

Base == TypeOK /\ QueuedIsTaken

\* Only the status of `r` changes, to `v`.
Becomes(r, v) ==
  /\ req'[r].status = v /\ req'[r].subject = req[r].subject /\ req'[r].inst = req[r].inst
  /\ req'[r].action = req[r].action /\ req'[r].after = req[r].after

-----------------------------------------------------------------------------
\* Where a transition of the definition leads.
LEMMA TransitionTypes ==
  ASSUME NEW tr \in Def.trans
  PROVE  /\ tr.from \in Def.states /\ tr.from \notin Def.terminal /\ tr.to \in Def.states
         /\ tr.from \in State /\ tr.to \in State /\ tr.action \in Action
BY DefAssumption, Zenon DEF Definition, TransitionDef, Valid, WellFormed

LEMMA InitialType == Def.initial \in State /\ Def.initial \notin Def.terminal
BY DefAssumption DEF Definition, Valid, WellFormed

LEMMA NotClosedUnstarted == NoState \notin Def.terminal
BY DefAssumption, NullAssumption DEF Definition

\* Cancelling reminders ends those of `rs` that wait in their row.
LEMMA SilencedTypes ==
  ASSUME TypeOK, NEW rs \in SUBSET Request, chase' = Silenced(rs)
  PROVE  /\ chase' \in [Request -> ChaseRow]
         /\ \A q \in Request : /\ chase'[q].late = chase[q].late
                               /\ q \notin rs => chase'[q] = chase[q]
                               /\ Waiting(q) /\ q \in rs => chase'[q].timer = "none"
                               /\ ~Waiting(q) => chase'[q] = chase[q]
BY DEF TypeOK, Silenced, Waiting, ChaseRow, Timer

\* What a move of a case does to the typed variables.
LEMMA MovedTypes ==
  ASSUME Base, NEW i \in Instance, NEW tr \in Def.trans, NEW by \in Request \cup {NoRequest},
         NEW rs \in SUBSET Request, Len(hist[i]) < MaxMoves, Moved(i, tr, by, rs)
  PROVE  /\ state' \in [Instance -> State \cup {NoState}]
         /\ hist' \in [Instance -> Seq(HistRow)]
         /\ Len(hist'[i]) = Len(hist[i]) + 1
         /\ hist'[i][Len(hist[i]) + 1] = [tr |-> tr, by |-> by]
         /\ \A k \in 1 .. Len(hist[i]) : hist'[i][k] = hist[i][k]
         /\ \A j \in Instance \ {i} : hist'[j] = hist[j]
         /\ queue' \subseteq Message
         /\ chase' \in [Request -> ChaseRow]
         /\ QueuedIsTaken'
<1> DEFINE h == hist[i]
           row == [tr |-> tr, by |-> by]
           n == Len(h) + 1
<1>1. h \in Seq(HistRow) /\ row \in HistRow /\ Len(h) \in Nat /\ n \in 1 .. MaxMoves
  <2>1. hist \in [Instance -> Seq(HistRow)]
    BY DEF Base, TypeOK
  <2>2. h \in Seq(HistRow)
    BY <2>1
  <2>3. Len(h) \in Nat
    BY <2>2
  <2>4. n \in 1 .. MaxMoves
    BY <2>3, MovesAssumption
  <2>5. row \in HistRow
    BY DEF HistRow
  <2> QED BY <2>2, <2>3, <2>4, <2>5
<1>2. hist' = [hist EXCEPT ![i] = Append(h, row)]
  BY DEF Moved
<1>3. /\ Append(h, row) \in Seq(HistRow) /\ Len(Append(h, row)) = n
      /\ Append(h, row)[n] = row
      /\ \A k \in 1 .. Len(h) : Append(h, row)[k] = h[k]
  BY <1>1
<1>4. hist'[i] = Append(h, row) /\ \A j \in Instance \ {i} : hist'[j] = hist[j]
  BY <1>2 DEF Base, TypeOK
<1>5. hist' \in [Instance -> Seq(HistRow)]
  BY <1>2, <1>3 DEF Base, TypeOK
<1>6. state' \in [Instance -> State \cup {NoState}]
  BY TransitionTypes DEF Moved, Base, TypeOK
<1>7. <<i, n, "open">> \in Message /\ <<i, n, "cancel">> \in Message
  BY <1>1 DEF Message, Effect
<1>8. queue' \subseteq queue \cup {<<i, n, "open">>, <<i, n, "cancel">>}
  BY DEF Moved
<1>9. <<i, n, "open">> \in queue' => (<<i, n, "open">> \in queue \/ tr \in DOMAIN Opens)
  BY DEF Moved
<1>10. queue' \subseteq Message
  BY <1>7, <1>8 DEF Base, TypeOK
<1>12. chase' \in [Request -> ChaseRow]
  <2>1. PICK over \in SUBSET Request : chase' = Silenced(over)
    BY DEF Moved
  <2> QED BY <2>1, SilencedTypes DEF Base
<1>11. QueuedIsTaken'
  <2> SUFFICES ASSUME NEW m \in queue'
               PROVE  /\ m[2] \in 1 .. Len(hist'[m[1]])
                      /\ m[3] = "open" => hist'[m[1]][m[2]].tr \in DOMAIN Opens
    BY DEF QueuedIsTaken
  <2>1. CASE m \in queue
    <3>1. m[1] \in Instance /\ m[2] \in 1 .. Len(hist[m[1]])
      BY <2>1 DEF Base, TypeOK, QueuedIsTaken, Message
    <3>2. m[3] = "open" => hist[m[1]][m[2]].tr \in DOMAIN Opens
      BY <2>1 DEF Base, QueuedIsTaken
    <3>3. hist'[m[1]][m[2]] = hist[m[1]][m[2]] /\ m[2] \in 1 .. Len(hist'[m[1]])
      BY <3>1, <1>1, <1>3, <1>4
    <3> QED BY <3>2, <3>3
  <2>2. CASE m \notin queue
    <3>1. m = <<i, n, "open">> \/ m = <<i, n, "cancel">>
      BY <1>8, <2>2
    <3>2. n \in 1 .. Len(hist'[i]) /\ hist'[i][n].tr = tr
      BY <1>1, <1>3, <1>4
    <3>3. CASE m = <<i, n, "open">>
      BY <3>3, <3>2, <1>9, <2>2
    <3>4. CASE m = <<i, n, "cancel">>
      BY <3>4, <3>2
    <3> QED BY <3>1, <3>3, <3>4
  <2> QED BY <2>1, <2>2
<1> QED BY <1>3, <1>4, <1>5, <1>6, <1>10, <1>11, <1>12

\* The unqueued moves keep QueuedIsTaken.
LEMMA QueuedKept ==
  ASSUME QueuedIsTaken, hist' = hist, queue' \subseteq queue
  PROVE  QueuedIsTaken'
BY DEF QueuedIsTaken

\* The typed effect of opening and of withdrawing.
LEMMA OpenedTypes ==
  ASSUME TypeOK, NEW r \in Request, NEW s \in Subject, NEW i \in Instance \cup {NoInstance},
         NEW a \in Action \cup {NoAction}, NEW p \in SUBSET Message, Opened(r, s, i, a, p)
  PROVE  /\ req' \in [Request -> RequestRow] /\ chase' \in [Request -> ChaseRow]
         /\ req'[r].status = "pending" /\ req'[r].subject = s /\ req'[r].inst = i
         /\ req'[r].action = a /\ req'[r].after = p
         /\ \A q \in Request \ {r} : req'[q] = req[q] /\ chase'[q] = chase[q]
         /\ chase'[r].timer = "first" /\ chase'[r].late = chase[r].late
<1>1. /\ req' \in [Request -> RequestRow] /\ \A q \in Request \ {r} : req'[q] = req[q]
      /\ req'[r].status = "pending" /\ req'[r].subject = s /\ req'[r].inst = i
      /\ req'[r].action = a /\ req'[r].after = p
  BY DEF TypeOK, Opened, RequestRow, Status
<1>2. /\ chase' \in [Request -> ChaseRow] /\ \A q \in Request \ {r} : chase'[q] = chase[q]
      /\ chase'[r].timer = "first" /\ chase'[r].late = chase[r].late
  BY DEF TypeOK, Opened, ChaseRow, Timer
<1> QED BY <1>1, <1>2

LEMMA WithdrawnTypes ==
  ASSUME TypeOK, NEW rs \in SUBSET Request, Withdrawn(rs)
  PROVE  /\ req' \in [Request -> RequestRow] /\ chase' \in [Request -> ChaseRow]
         /\ \A r \in rs : Becomes(r, "cancelled")
         /\ \A r \in Request \ rs : req'[r] = req[r]
<1>1. req' \in [Request -> RequestRow]
  <2>1. \A r \in Request : [req[r] EXCEPT !.status = "cancelled"] \in RequestRow
    BY DEF TypeOK, RequestRow, Status
  <2> QED BY <2>1 DEF TypeOK, Withdrawn
<1>4. chase' \in [Request -> ChaseRow]
  BY SilencedTypes DEF Withdrawn
<1>2. \A r \in rs : Becomes(r, "cancelled")
  BY DEF TypeOK, Withdrawn, RequestRow, Becomes
<1>3. \A r \in Request \ rs : req'[r] = req[r]
  BY DEF TypeOK, Withdrawn
<1> QED BY <1>1, <1>2, <1>3, <1>4

LEMMA RecordedTypes ==
  ASSUME TypeOK, NEW c \in Call, NEW v \in Verdict, deciding[c] # NoRequest, Recorded(c, v)
  PROVE  /\ req' \in [Request -> RequestRow] /\ decided' \subseteq DecisionRow
         /\ deciding' \in [Call -> Request \cup {NoRequest}]
         /\ deciding[c] \in Request
         /\ Becomes(deciding[c], v)
         /\ \A r \in Request \ {deciding[c]} : req'[r] = req[r]
         /\ decided' = decided \cup {[req |-> deciding[c], verdict |-> v, call |-> c]}
         /\ deciding'[c] = NoRequest
         /\ \A d \in Call \ {c} : deciding'[d] = deciding[d]
<1>1. deciding[c] \in Request
  BY DEF TypeOK
<1>2. req' \in [Request -> RequestRow] /\ Becomes(deciding[c], v)
  BY <1>1 DEF TypeOK, Recorded, RequestRow, Status, Verdict, Becomes
<1>3. \A r \in Request \ {deciding[c]} : req'[r] = req[r]
  BY <1>1 DEF TypeOK, Recorded
<1>4. /\ decided' = decided \cup {[req |-> deciding[c], verdict |-> v, call |-> c]}
      /\ decided' \subseteq DecisionRow
  BY <1>1 DEF TypeOK, Recorded, DecisionRow
<1>5. /\ deciding' \in [Call -> Request \cup {NoRequest}] /\ deciding'[c] = NoRequest
      /\ \A d \in Call \ {c} : deciding'[d] = deciding[d]
  BY DEF TypeOK, Recorded
<1> QED BY <1>1, <1>2, <1>3, <1>4, <1>5

LEMMA ClaimTypes ==
  ASSUME TypeOK, NEW m \in Message, Claim(m)
  PROVE  /\ ledger' \subseteq Message /\ ledger' = ledger \cup {m}
         /\ met' \subseteq Message /\ queue' = queue
BY DEF TypeOK, Claim

\* A step of the chase touches nothing else.
LEMMA ChaseOnly ==
  ASSUME NEW r \in Request, ChaseStep(r)
  PROVE  UNCHANGED <<case, req, decided, bus, team, deciding>>
BY DEF ChaseStep, ChaseSent, ChaseRead, ChaseStops, ChaseCommit, ChaseFails, ChaseLost

\* What it does to the chase of its request.
LEMMA ChaseTypes ==
  ASSUME TypeOK, NEW r \in Request, ChaseStep(r)
  PROVE  /\ chase' \in [Request -> ChaseRow]
         /\ \A q \in Request \ {r} : chase'[q] = chase[q]
         /\ \/ /\ chase'[r].late = chase[r].late
               /\ \/ chase'[r].timer \in {"enqueued", "lost"}
                  \/ Pending(r) /\ chase'[r].timer = "firing"
                  \/ ~Pending(r) /\ chase'[r].timer = "none"
            \/ /\ chase[r].timer = "firing" /\ chase'[r].timer = "next"
               /\ chase'[r].late = chase[r].late + IF Pending(r) THEN 0 ELSE 1
<1>1. chase \in [Request -> ChaseRow] /\ chase[r] \in ChaseRow /\ chase[r].late \in Nat
  BY DEF TypeOK, ChaseRow
<1>2. ASSUME NEW t \in Timer, chase' = [chase EXCEPT ![r].timer = t]
      PROVE  /\ chase' \in [Request -> ChaseRow] /\ \A q \in Request \ {r} : chase'[q] = chase[q]
             /\ chase'[r].timer = t /\ chase'[r].late = chase[r].late
  BY <1>1, <1>2 DEF ChaseRow
<1>3. CASE ChaseSent(r) \/ ChaseFails(r)
  BY <1>2, <1>3 DEF ChaseSent, ChaseFails, Timer
<1>4. CASE ChaseRead(r)
  BY <1>2, <1>4 DEF ChaseRead, Timer
<1>5. CASE ChaseStops(r)
  BY <1>2, <1>5 DEF ChaseStops, Timer
<1>6. CASE ChaseLost(r)
  BY <1>2, <1>6 DEF ChaseLost, Timer
<1>7. CASE ChaseCommit(r)
  <2> DEFINE one == IF Pending(r) THEN 0 ELSE 1
  <2>1. /\ chase[r].timer = "firing"
        /\ chase' = [chase EXCEPT ![r] = [timer |-> "next", late |-> chase[r].late + one]]
    BY <1>7 DEF ChaseCommit
  <2>2. one \in Nat
    OBVIOUS
  <2> HIDE DEF one
  <2>3. [timer |-> "next", late |-> chase[r].late + one] \in ChaseRow
    BY <1>1, <2>2 DEF ChaseRow, Timer
  <2>4. /\ chase' \in [Request -> ChaseRow] /\ \A q \in Request \ {r} : chase'[q] = chase[q]
        /\ chase'[r].timer = "next" /\ chase'[r].late = chase[r].late + one
    BY <1>1, <2>1, <2>3
  <2> USE DEF one
  <2> QED BY <2>1, <2>4
<1> QED BY <1>3, <1>4, <1>5, <1>6, <1>7 DEF ChaseStep

-----------------------------------------------------------------------------
LEMMA BaseInit == Init => Base
BY DEF Init, Base, TypeOK, QueuedIsTaken, NoRow, RequestRow, Status, ChaseRow, Timer

LEMMA BaseNext == Base /\ [Next]_vars => Base'
<1> SUFFICES ASSUME Base, [Next]_vars PROVE Base'
  OBVIOUS
<1> USE DEF Base
<1>1. ASSUME NEW i \in Instance, Start(i) PROVE Base'
  BY <1>1, InitialType, QueuedKept DEF Start, TypeOK, bus, team
<1>2. ASSUME NEW i \in Instance, NEW tr \in Def.trans, Take(i, tr) PROVE Base'
  <2>1. Moved(i, tr, NoRequest, {}) /\ Len(hist[i]) < MaxMoves
    BY <1>2 DEF Take
  <2>2. {} \in SUBSET Request /\ NoRequest \in Request \cup {NoRequest}
    OBVIOUS
  <2>3. /\ state' \in [Instance -> State \cup {NoState}] /\ hist' \in [Instance -> Seq(HistRow)]
        /\ queue' \subseteq Message /\ chase' \in [Request -> ChaseRow] /\ QueuedIsTaken'
    BY <2>1, <2>2, MovedTypes
  <2> QED BY <1>2, <2>3 DEF Take, TypeOK, team
<1>3. ASSUME NEW r \in Request, CancelRequest(r) PROVE Base'
  <2>1. req' \in [Request -> RequestRow] /\ chase' \in [Request -> ChaseRow]
    BY <1>3, WithdrawnTypes DEF CancelRequest
  <2> QED BY <1>3, <2>1, QueuedKept DEF CancelRequest, TypeOK, case, bus, team
<1>4. ASSUME NEW r \in Request, NEW s \in Subject, Submit(r, s) PROVE Base'
  <2>1. req' \in [Request -> RequestRow] /\ chase' \in [Request -> ChaseRow]
    BY <1>4, OpenedTypes DEF Submit
  <2> QED BY <1>4, <2>1, QueuedKept DEF Submit, TypeOK, case, bus, team
<1>5. ASSUME NEW m \in Message, NEW r \in Request, HandleOpen(m, r) PROVE Base'
  <2>1. m[1] \in Instance /\ SubjectOf[m[1]] \in Subject
    BY SubjectAssumption DEF Message
  <2>2. Opens[hist[m[1]][m[2]].tr] \in Action \cup {NoAction}
    BY <1>5, EffectAssumption DEF HandleOpen, QueuedIsTaken
  <2>3. { l \in ledger : l[1] = m[1] /\ l[3] = "cancel" } \in SUBSET Message
    BY DEF TypeOK
  <2>4. req' \in [Request -> RequestRow] /\ chase' \in [Request -> ChaseRow]
    BY <1>5, <2>1, <2>2, <2>3, OpenedTypes DEF HandleOpen
  <2>5. /\ ledger' \subseteq Message
        /\ met' \subseteq Message /\ queue' = queue
    BY <1>5, ClaimTypes DEF HandleOpen
  <2> QED BY <1>5, <2>4, <2>5, QueuedKept DEF HandleOpen, TypeOK, case, team
<1>6. ASSUME NEW m \in Message, HandleOpenWaived(m) PROVE Base'
  <2>1. /\ ledger' \subseteq Message
        /\ met' \subseteq Message /\ queue' = queue
    BY <1>6, ClaimTypes DEF HandleOpenWaived
  <2> QED BY <1>6, <2>1, QueuedKept DEF HandleOpenWaived, TypeOK, case, team
<1>7. ASSUME NEW m \in Message, HandleOpenRefused(m) PROVE Base'
  BY <1>7, QueuedKept DEF HandleOpenRefused, TypeOK, case, team
<1>8. ASSUME NEW m \in Message, HandleCancel(m) PROVE Base'
  <2>1. PendingOf(m[1]) \in SUBSET Request
    BY DEF PendingOf
  <2>2. req' \in [Request -> RequestRow] /\ chase' \in [Request -> ChaseRow]
    BY <1>8, <2>1, WithdrawnTypes DEF HandleCancel
  <2>3. /\ ledger' \subseteq Message
        /\ met' \subseteq Message /\ queue' = queue
    BY <1>8, ClaimTypes DEF HandleCancel
  <2> QED BY <1>8, <2>2, <2>3, QueuedKept DEF HandleCancel, TypeOK, case, team
<1>9. ASSUME NEW m \in Message, Complete(m) PROVE Base'
  BY <1>9, QueuedKept DEF Complete, TypeOK, case, team
<1>10. ASSUME NEW c \in Call, NEW r \in Request, Open(c, r) PROVE Base'
  BY <1>10, QueuedKept DEF Open, TypeOK, case, bus, team
<1>11. ASSUME NEW c \in Call, NEW v \in Verdict, Decide(c, v) PROVE Base'
  <2>1. /\ req' \in [Request -> RequestRow] /\ decided' \subseteq DecisionRow
        /\ deciding' \in [Call -> Request \cup {NoRequest}] /\ {deciding[c]} \in SUBSET Request
    BY <1>11, RecordedTypes DEF Decide
  <2>2. chase' \in [Request -> ChaseRow]
    BY <1>11, <2>1, SilencedTypes DEF Decide
  <2> QED BY <1>11, <2>1, <2>2, QueuedKept DEF Decide, TypeOK, case, bus, team
<1>12. ASSUME NEW c \in Call, DecideAndMove(c) PROVE Base'
  <2> DEFINE r == deciding[c]
             i == req[r].inst
  <2>1. "approved" \in Verdict /\ r # NoRequest /\ Recorded(c, "approved")
    BY <1>12 DEF DecideAndMove, Verdict
  <2>2. /\ req' \in [Request -> RequestRow] /\ decided' \subseteq DecisionRow
        /\ deciding' \in [Call -> Request \cup {NoRequest}] /\ r \in Request
    BY <2>1, RecordedTypes
  <2>3. i \in Instance /\ Len(hist[i]) < MaxMoves
    BY <1>12, <2>2 DEF DecideAndMove, Moves, TypeOK, RequestRow
  <2>4. PICK tr \in Def.trans : Moved(i, tr, r, {r})
    BY <1>12 DEF DecideAndMove, SystemMoves, TransitionsFor
  <2>5. /\ state' \in [Instance -> State \cup {NoState}] /\ hist' \in [Instance -> Seq(HistRow)]
        /\ queue' \subseteq Message /\ chase' \in [Request -> ChaseRow] /\ QueuedIsTaken'
    <3>1. {r} \in SUBSET Request /\ r \in Request \cup {NoRequest}
      BY <2>2
    <3> HIDE DEF r, i
    <3> QED BY <3>1, <2>3, <2>4, MovedTypes
  <2> QED BY <1>12, <2>2, <2>5 DEF DecideAndMove, TypeOK, team
<1>13. ASSUME NEW c \in Call, Abort(c) PROVE Base'
  BY <1>13, QueuedKept DEF Abort, TypeOK, case, bus, team
<1>14. ASSUME NEW p \in Member, ChangeHolders(p) PROVE Base'
  BY <1>14, QueuedKept DEF ChangeHolders, TypeOK, case, bus
<1>15. ASSUME NEW p \in Member, NEW q \in Person,
              CreateDelegation(p, q) \/ RevokeDelegation(p, q) PROVE Base'
  BY <1>15, QueuedKept DEF CreateDelegation, RevokeDelegation, TypeOK, case, bus
<1>16. CASE UNCHANGED vars
  BY <1>16, QueuedKept DEF vars, TypeOK
<1>17. ASSUME NEW r \in Request, ChaseStep(r) PROVE Base'
  <2>1. chase' \in [Request -> ChaseRow]
    BY <1>17, ChaseTypes DEF Base
  <2> QED BY <1>17, <2>1, ChaseOnly, QueuedKept DEF TypeOK, case, bus, team
<1> QED BY <1>1, <1>2, <1>3, <1>4, <1>5, <1>6, <1>7, <1>8, <1>9, <1>10, <1>11, <1>12, <1>13,
           <1>14, <1>15, <1>16, <1>17
        DEF Next, CaseStep, HandlerStep, CallStep, PeopleStep

\* Every reachable state is well typed, and a queued effect belongs to a committed
\* transition that names it.
LEMMA AlwaysBase == Spec => []Base
<1>1. Init => Base
  BY BaseInit
<1>2. Base /\ [Next]_vars => Base'
  BY BaseNext
<1> QED BY <1>1, <1>2, PTL DEF Spec

\* Every reachable state of cases, requests, decisions and effect messages is
\* well typed.
THEOREM TypeCorrect == Spec => []TypeOK
<1>1. Base => TypeOK
  BY DEF Base
<1> QED BY <1>1, AlwaysBase, PTL

-----------------------------------------------------------------------------
(***************************************************************************)
(* One decision each.  The lock makes the check "still pending" hold until *)
(* the verdict is written, and keeps the withdrawals away meanwhile.       *)
(***************************************************************************)
Settled == LockHeld /\ OneDecision

LEMMA SettledOpened ==
  ASSUME TypeOK, Settled, NEW r \in Request, NEW s \in Subject, NEW i \in Instance \cup {NoInstance},
         NEW a \in Action \cup {NoAction}, NEW p \in SUBSET Message, Opened(r, s, i, a, p),
         req[r].status = "absent", ~Taken(s), UNCHANGED <<decided, deciding>>
  PROVE  Settled'
<1>1. /\ req'[r].status = "pending" /\ req'[r].subject = s
      /\ \A q \in Request \ {r} : req'[q] = req[q]
  BY OpenedTypes
<1>2. LockHeld'
  BY <1>1 DEF Settled, LockHeld, Pending, TypeOK
<1>3. \A d \in decided : d.req \in Request /\ d.req # r
  BY DEF Settled, OneDecision, TypeOK, DecisionRow, Verdict
<1>4. \A q \in Request : req'[q].status \in Verdict <=> \E d \in decided : d.req = q
  BY <1>1, <1>3 DEF Settled, OneDecision, Verdict
<1>5. \A d \in decided : d.verdict = req'[d.req].status
  BY <1>1, <1>3 DEF Settled, OneDecision
<1>6. \A q, t \in Request : (Pending(q)' /\ Pending(t)' /\ req'[q].subject = req'[t].subject) => q = t
  BY <1>1 DEF Settled, OneDecision, Pending, Taken
<1> QED BY <1>2, <1>4, <1>5, <1>6 DEF Settled, OneDecision, Pending

LEMMA SettledWithdrawn ==
  ASSUME TypeOK, Settled, NEW rs \in SUBSET Request, Withdrawn(rs),
         \A r \in rs : Pending(r) /\ ~Locked(r), UNCHANGED <<decided, deciding>>
  PROVE  Settled'
<1>1. /\ \A r \in rs : req'[r].status = "cancelled" /\ req'[r].subject = req[r].subject
      /\ \A r \in Request \ rs : req'[r] = req[r]
  BY WithdrawnTypes DEF Becomes
<1>2. \A c \in Call : deciding[c] # NoRequest => deciding[c] \in Request \ rs
  BY DEF Locked, TypeOK
<1>3. LockHeld'
  BY <1>1, <1>2 DEF Settled, LockHeld, Pending
<1>4. \A d \in decided : d.req \in Request \ rs
  BY DEF Settled, OneDecision, Pending, TypeOK, DecisionRow, Verdict
<1>5. \A q \in Request : req'[q].status \in Verdict <=> \E d \in decided : d.req = q
  BY <1>1, <1>4 DEF Settled, OneDecision, Verdict
<1>6. \A d \in decided : d.verdict = req'[d.req].status
  BY <1>1, <1>4 DEF Settled, OneDecision
<1>7. \A q \in Request : req'[q].status = "pending" => req'[q] = req[q]
  BY <1>1
<1>8. \A q, t \in Request : (Pending(q)' /\ Pending(t)' /\ req'[q].subject = req'[t].subject) => q = t
  BY <1>7 DEF Settled, OneDecision, Pending
<1> QED BY <1>3, <1>5, <1>6, <1>8 DEF Settled, OneDecision, Pending

LEMMA SettledRecorded ==
  ASSUME TypeOK, Settled, NEW c \in Call, NEW v \in Verdict, deciding[c] # NoRequest, Recorded(c, v)
  PROVE  Settled'
<1> DEFINE r == deciding[c]
           row == [req |-> r, verdict |-> v, call |-> c]
<1>1. /\ r \in Request /\ req'[r].status = v /\ req'[r].subject = req[r].subject
      /\ \A q \in Request \ {r} : req'[q] = req[q]
      /\ decided' = decided \cup {row}
      /\ deciding'[c] = NoRequest /\ \A d \in Call \ {c} : deciding'[d] = deciding[d]
  BY RecordedTypes DEF Becomes
<1>2. Pending(r)
  BY DEF Settled, LockHeld
<1>3. \A d \in Call \ {c} : deciding[d] # r
  BY DEF Settled, LockHeld
<1> HIDE DEF r
<1>4. \A d \in Call : deciding'[d] # NoRequest => (d # c /\ deciding'[d] = deciding[d] /\ deciding[d] # r)
  BY <1>1, <1>3
<1>5. LockHeld'
  BY <1>1, <1>4 DEF Settled, LockHeld, Pending, TypeOK
<1>6. \A d \in decided : d.req \in Request \ {r}
  BY <1>2 DEF Settled, OneDecision, Pending, TypeOK, DecisionRow, Verdict
<1>7. row.req = r /\ row.verdict = v
  OBVIOUS
<1> HIDE DEF row
<1>8. \A q \in Request : req'[q].status \in Verdict <=> \E d \in decided' : d.req = q
  <2> TAKE q \in Request
  <2>1. CASE q = r
    BY <1>1, <1>7, <2>1
  <2>2. CASE q # r
    BY <1>1, <1>7, <2>2 DEF Settled, OneDecision
  <2> QED BY <2>1, <2>2
<1>9. \A d, e \in decided' : d.req = e.req => d = e
  BY <1>1, <1>6, <1>7 DEF Settled, OneDecision
<1>10. \A d \in decided' : d.verdict = req'[d.req].status
  BY <1>1, <1>6, <1>7 DEF Settled, OneDecision
<1>11. \A q \in Request : req'[q].status = "pending" => req'[q] = req[q]
  BY <1>1 DEF Verdict
<1>12. \A q, t \in Request : (Pending(q)' /\ Pending(t)' /\ req'[q].subject = req'[t].subject) => q = t
  BY <1>11 DEF Settled, OneDecision, Pending
<1> QED BY <1>5, <1>8, <1>9, <1>10, <1>12 DEF Settled, OneDecision, Pending

\* A step that touches neither requests nor decisions.
LEMMA SettledKept ==
  ASSUME Settled, UNCHANGED <<req, decided, deciding>>
  PROVE  Settled'
BY DEF Settled, LockHeld, OneDecision, Pending

LEMMA SettledNext == Base /\ Settled /\ [Next]_vars => Settled'
<1> SUFFICES ASSUME Base, Settled, [Next]_vars PROVE Settled'
  OBVIOUS
<1>0. TypeOK
  BY DEF Base
<1>1. ASSUME CaseStep PROVE Settled'
  BY <1>1, SettledKept DEF CaseStep, Start, Take
<1>2. ASSUME NEW r \in Request, CancelRequest(r) PROVE Settled'
  BY <1>0, <1>2, SettledWithdrawn DEF CancelRequest
<1>3. ASSUME NEW r \in Request, NEW s \in Subject, Submit(r, s) PROVE Settled'
  BY <1>0, <1>3, SettledOpened DEF Submit
<1>4. ASSUME NEW m \in Message, NEW r \in Request, HandleOpen(m, r) PROVE Settled'
  <2>1. m[1] \in Instance /\ SubjectOf[m[1]] \in Subject
    BY SubjectAssumption DEF Message
  <2>2. Opens[hist[m[1]][m[2]].tr] \in Action \cup {NoAction}
    BY <1>4, EffectAssumption DEF HandleOpen, Base, QueuedIsTaken
  <2>3. { l \in ledger : l[1] = m[1] /\ l[3] = "cancel" } \in SUBSET Message
    BY <1>0 DEF TypeOK
  <2> QED BY <1>0, <1>4, <2>1, <2>2, <2>3, SettledOpened DEF HandleOpen
<1>5. ASSUME NEW m \in Message, HandleOpenWaived(m) \/ HandleOpenRefused(m) \/ Complete(m)
      PROVE  Settled'
  BY <1>5, SettledKept DEF HandleOpenWaived, HandleOpenRefused, Complete
<1>6. ASSUME NEW m \in Message, HandleCancel(m) PROVE Settled'
  <2>1. PendingOf(m[1]) \in SUBSET Request /\ \A r \in PendingOf(m[1]) : Pending(r)
    BY DEF PendingOf
  <2> QED BY <1>0, <1>6, <2>1, SettledWithdrawn DEF HandleCancel
<1>7. ASSUME NEW c \in Call, NEW r \in Request, Open(c, r) PROVE Settled'
  <2>1. /\ deciding'[c] = r /\ \A d \in Call \ {c} : deciding'[d] = deciding[d]
    BY <1>0, <1>7 DEF Open, TypeOK
  <2>2. LockHeld'
    BY <1>7, <2>1 DEF Open, Settled, LockHeld, Pending, Locked
  <2> QED BY <1>7, <2>2 DEF Open, Settled, OneDecision, Pending
<1>8. ASSUME NEW c \in Call, NEW v \in Verdict, Decide(c, v) PROVE Settled'
  BY <1>0, <1>8, SettledRecorded DEF Decide
<1>9. ASSUME NEW c \in Call, DecideAndMove(c) PROVE Settled'
  BY <1>0, <1>9, SettledRecorded DEF DecideAndMove, Verdict
<1>10. ASSUME NEW c \in Call, Abort(c) PROVE Settled'
  <2>1. /\ deciding'[c] = NoRequest /\ \A d \in Call \ {c} : deciding'[d] = deciding[d]
    BY <1>0, <1>10 DEF Abort, TypeOK
  <2>2. LockHeld'
    BY <1>10, <2>1 DEF Abort, Settled, LockHeld, Pending
  <2> QED BY <1>10, <2>2 DEF Abort, Settled, OneDecision, Pending
<1>11. ASSUME PeopleStep PROVE Settled'
  BY <1>11, SettledKept DEF PeopleStep, ChangeHolders, CreateDelegation, RevokeDelegation
<1>12. CASE UNCHANGED vars
  BY <1>12, SettledKept DEF vars
<1>13. ASSUME NEW r \in Request, ChaseStep(r) PROVE Settled'
  BY <1>13, ChaseOnly, SettledKept
<1> QED BY <1>1, <1>2, <1>3, <1>4, <1>5, <1>6, <1>7, <1>8, <1>9, <1>10, <1>11, <1>12, <1>13
        DEF Next, HandlerStep, CallStep

\* Approvers, the requester and the cancel effect may race: a request is settled
\* by at most one decision, and by none when it was withdrawn.
THEOREM AlwaysOneDecision == Spec => []OneDecision
<1>1. Init => Settled
  BY DEF Init, Settled, LockHeld, OneDecision, Pending, NoRow, Verdict
<1>2. Base /\ Settled /\ [Next]_vars => Settled'
  BY SettledNext
<1>3. Settled => OneDecision
  BY DEF Settled
<1> QED BY <1>1, <1>2, <1>3, AlwaysBase, PTL DEF Spec

-----------------------------------------------------------------------------
(***************************************************************************)
(* Cancel effects and the requests that outlive them.                      *)
(***************************************************************************)
LEMMA OrderedNext == Base /\ OnlyOvertakingOutlives /\ [Next]_vars => OnlyOvertakingOutlives'
<1> SUFFICES ASSUME Base, OnlyOvertakingOutlives, [Next]_vars PROVE OnlyOvertakingOutlives'
  OBVIOUS
<1>0. TypeOK
  BY DEF Base
<1> USE DEF OnlyOvertakingOutlives, Pending
<1>1. ASSUME CaseStep PROVE OnlyOvertakingOutlives'
  BY <1>1 DEF CaseStep, Start, Take, bus
<1>2. ASSUME NEW r \in Request, CancelRequest(r) PROVE OnlyOvertakingOutlives'
  <2>1. \A q \in Request : req'[q].status = "pending" => req'[q] = req[q]
    BY <1>0, <1>2, WithdrawnTypes DEF CancelRequest, Becomes
  <2> QED BY <1>2, <2>1 DEF CancelRequest, bus
<1>3. ASSUME NEW r \in Request, NEW s \in Subject, Submit(r, s) PROVE OnlyOvertakingOutlives'
  <2>1. /\ req'[r].inst = NoInstance
        /\ \A q \in Request \ {r} : req'[q] = req[q]
    BY <1>0, <1>3, OpenedTypes DEF Submit
  <2>2. \A m \in ledger : m[1] # NoInstance
    BY <1>0, NullAssumption DEF Message, TypeOK
  <2> QED BY <1>3, <2>1, <2>2 DEF Submit, bus
<1>4. ASSUME NEW m \in Message, NEW r \in Request, HandleOpen(m, r) PROVE OnlyOvertakingOutlives'
  <2> DEFINE before == { l \in ledger : l[1] = m[1] /\ l[3] = "cancel" }
  <2>1. m[3] # "cancel" /\ ledger' = ledger \cup {m}
    BY <1>4 DEF HandleOpen, Claim
  <2>2. /\ req'[r].after = before /\ req'[r].inst = m[1]
        /\ \A q \in Request \ {r} : req'[q] = req[q]
    <3>1. Opened(r, SubjectOf[m[1]], m[1], Opens[hist[m[1]][m[2]].tr], before)
      BY <1>4 DEF HandleOpen
    <3>2. DOMAIN req = Request
      BY <1>0 DEF TypeOK
    <3> QED BY <3>1, <3>2 DEF Opened
  <2> QED BY <2>1, <2>2
<1>5. ASSUME NEW m \in Message, HandleOpenWaived(m) PROVE OnlyOvertakingOutlives'
  BY <1>5 DEF HandleOpenWaived, Claim
<1>6. ASSUME NEW m \in Message, HandleOpenRefused(m) \/ Complete(m) PROVE OnlyOvertakingOutlives'
  BY <1>6 DEF HandleOpenRefused, Complete
<1>7. ASSUME NEW m \in Message, HandleCancel(m) PROVE OnlyOvertakingOutlives'
  <2>1. PendingOf(m[1]) \in SUBSET Request
    BY DEF PendingOf
  <2>2. /\ \A q \in PendingOf(m[1]) : req'[q].status # "pending"
        /\ \A q \in Request \ PendingOf(m[1]) : req'[q] = req[q]
    BY <1>0, <1>7, <2>1, WithdrawnTypes DEF HandleCancel, Becomes
  <2>3. ledger' = ledger \cup {m}
    BY <1>7 DEF HandleCancel, Claim
  <2>4. ASSUME NEW q \in Request, req'[q].status = "pending", NEW l \in ledger',
               l[1] = req'[q].inst, l[3] = "cancel"
        PROVE  l \in req'[q].after
    <3>1. q \notin PendingOf(m[1]) /\ req'[q] = req[q]
      BY <2>2, <2>4
    <3>2. req[q].inst # m[1]
      BY <2>4, <3>1 DEF PendingOf
    <3> QED BY <2>3, <2>4, <3>1, <3>2
  <2> QED BY <2>4
<1>8. ASSUME NEW c \in Call, NEW r \in Request, Open(c, r) PROVE OnlyOvertakingOutlives'
  BY <1>8 DEF Open, bus
<1>9. ASSUME NEW c \in Call, NEW v \in Verdict, deciding[c] # NoRequest, Recorded(c, v),
             UNCHANGED ledger
      PROVE  OnlyOvertakingOutlives'
  <2>1. \A q \in Request : req'[q].status = "pending" => req'[q] = req[q]
    BY <1>0, <1>9, RecordedTypes DEF Becomes, Verdict
  <2> QED BY <1>9, <2>1
<1>10. ASSUME NEW c \in Call, Abort(c) PROVE OnlyOvertakingOutlives'
  BY <1>10 DEF Abort, bus
<1>11. ASSUME PeopleStep PROVE OnlyOvertakingOutlives'
  BY <1>11 DEF PeopleStep, ChangeHolders, CreateDelegation, RevokeDelegation, bus
<1>12. CASE UNCHANGED vars
  BY <1>12 DEF vars
<1>13. ASSUME NEW r \in Request, ChaseStep(r) PROVE OnlyOvertakingOutlives'
  BY <1>13, ChaseOnly DEF bus
<1> QED BY <1>1, <1>2, <1>3, <1>4, <1>5, <1>6, <1>7, <1>8, <1>9, <1>10, <1>11, <1>12, <1>13
        DEF Next, HandlerStep, CallStep, Decide, DecideAndMove, bus, Verdict

\* A request outlives the withdrawal of its case only when the cancel effect was
\* handled before the request was opened.
THEOREM AlwaysOnlyOvertaking == Spec => []OnlyOvertakingOutlives
<1>1. Init => OnlyOvertakingOutlives
  BY DEF Init, OnlyOvertakingOutlives, Pending, NoRow
<1>2. Base /\ OnlyOvertakingOutlives /\ [Next]_vars => OnlyOvertakingOutlives'
  BY OrderedNext
<1> QED BY <1>1, <1>2, AlwaysBase, PTL DEF Spec

-----------------------------------------------------------------------------
(***************************************************************************)
(* The chase of a request, and the terminal sweep of its case.             *)
(***************************************************************************)
\* One request: a chase being handled, or one of a request that still waits, is the
\* first to go out late if it does; and a request not yet opened has none.
ChaseOK(r) ==
  /\ chase[r].late <= 1
  /\ ~Pending(r) /\ Waiting(r) => chase[r].late = 1
  /\ Pending(r) /\ chase[r].timer = "none" => req[r].inst # NoInstance /\ Closed(req[r].inst)
  /\ chase[r].timer = "firing" \/ Pending(r) => chase[r].late = 0
  /\ req[r].status = "absent" => chase[r].timer = "none" /\ chase[r].late = 0

Chases == \A r \in Request : ChaseOK(r)

\* A request that a step leaves alone; no case reopens.
LEMMA ChaseKept ==
  ASSUME NEW q \in Request, ChaseOK(q), req'[q] = req[q], chase'[q] = chase[q],
         req[q].inst # NoInstance /\ Closed(req[q].inst) => Closed(req[q].inst)'
  PROVE  ChaseOK(q)'
BY DEF ChaseOK, Pending, Waiting, Closed

\* Its reminders are cancelled, and the request stays as it was.
LEMMA ChaseSwept ==
  ASSUME TypeOK, NEW q \in Request, NEW rs \in SUBSET Request, ChaseOK(q), chase' = Silenced(rs),
         req'[q] = req[q],
         req[q].inst # NoInstance /\ Closed(req[q].inst) => Closed(req[q].inst)',
         q \in rs => req[q].inst # NoInstance /\ Closed(req[q].inst)'
  PROVE  ChaseOK(q)'
<1>1. CASE Waiting(q) /\ q \in rs
  <2>1. chase'[q].timer = "none" /\ chase'[q].late = chase[q].late
    BY <1>1, SilencedTypes
  <2> QED BY <1>1, <2>1 DEF ChaseOK, Pending, Waiting, Closed
<1>2. CASE ~(Waiting(q) /\ q \in rs)
  <2>1. chase'[q] = chase[q]
    BY <1>2, SilencedTypes
  <2> QED BY <2>1, ChaseKept
<1> QED BY <1>1, <1>2

\* It is settled, and its reminders are cancelled with it.
LEMMA ChaseSettled ==
  ASSUME TypeOK, NEW q \in Request, NEW rs \in SUBSET Request, ChaseOK(q), chase' = Silenced(rs),
         Pending(q), q \in rs, req'[q].status \in {"approved", "rejected", "cancelled"}
  PROVE  ChaseOK(q)'
<1>1. chase[q].late = 0 /\ chase'[q].late = 0
  BY SilencedTypes DEF ChaseOK
<1>2. chase'[q].timer \notin {"first", "next"}
  BY SilencedTypes DEF Waiting
<1>3. req'[q].status # "pending" /\ req'[q].status # "absent"
  OBVIOUS
<1> QED BY <1>1, <1>2, <1>3 DEF ChaseOK, Pending, Waiting

\* A transition leaves an open case, and a terminal one sweeps the first chases of
\* the requests about it.
LEMMA ChaseMoved ==
  ASSUME Base, Chases, NEW i \in Instance, NEW tr \in Def.trans,
         NEW by \in Request \cup {NoRequest}, NEW rs \in SUBSET Request,
         Moved(i, tr, by, rs), tr.from = state[i],
         \A q \in Request \ rs : req'[q] = req[q],
         \A q \in rs : Pending(q) /\ req'[q].status \in {"approved", "rejected", "cancelled"}
  PROVE  Chases'
<1>1. ~Closed(i) /\ TypeOK
  BY TransitionTypes DEF Closed, Base
<1>2. /\ state'[i] = tr.to /\ \A j \in Instance \ {i} : state'[j] = state[j]
  BY DEF Moved, Base, TypeOK
<1>3. PICK over \in SUBSET Request :
        /\ chase' = Silenced(over) /\ rs \subseteq over
        /\ \A q \in over \ rs : req[q].inst = i /\ tr.to \in Def.terminal
  <2> DEFINE swept == IF tr.to \in Def.terminal
                      THEN { r \in Request : req[r].inst = i /\ chase[r].timer = "first" } ELSE {}
  <2>1. chase' = Silenced(rs \cup swept)
    BY DEF Moved
  <2>2. swept \subseteq Request /\ \A q \in swept : req[q].inst = i /\ tr.to \in Def.terminal
    OBVIOUS
  <2> HIDE DEF swept
  <2>3. rs \cup swept \in SUBSET Request
    BY <2>2
  <2> WITNESS rs \cup swept \in SUBSET Request
  <2> QED BY <2>1, <2>2
<1>4. ASSUME NEW q \in Request PROVE ChaseOK(q)'
  <2>1. ChaseOK(q) /\ req[q].inst \in Instance \cup {NoInstance}
    BY <1>1 DEF Chases, TypeOK, RequestRow
  <2>2. CASE q \in rs
    BY <1>1, <1>3, <2>1, <2>2, ChaseSettled
  <2>3. CASE q \notin rs
    <3>1. req'[q] = req[q]
      BY <2>3
    <3>2. req[q].inst # NoInstance /\ Closed(req[q].inst) => Closed(req[q].inst)'
      BY <1>1, <1>2, <2>1, <3>1 DEF Closed
    <3>3. q \in over => req[q].inst # NoInstance /\ Closed(req[q].inst)'
      BY <1>2, <1>3, <2>3, NullAssumption DEF Closed
    <3> QED BY <1>1, <1>3, <2>1, <3>1, <3>2, <3>3, ChaseSwept
  <2> QED BY <2>2, <2>3
<1> QED BY <1>4 DEF Chases

\* Steps that move no case.
LEMMA ChaseOpened ==
  ASSUME TypeOK, Chases, UNCHANGED state, NEW r \in Request, NEW s \in Subject,
         NEW i \in Instance \cup {NoInstance}, NEW a \in Action \cup {NoAction}, NEW p \in SUBSET Message,
         Opened(r, s, i, a, p), req[r].status = "absent"
  PROVE  Chases'
<1>1. /\ req'[r].status = "pending" /\ chase'[r].timer = "first" /\ chase'[r].late = chase[r].late
      /\ \A q \in Request \ {r} : req'[q] = req[q] /\ chase'[q] = chase[q]
  BY OpenedTypes
<1>2. ASSUME NEW q \in Request PROVE ChaseOK(q)'
  <2>1. ChaseOK(q)
    BY DEF Chases
  <2>2. CASE q = r
    BY <1>1, <2>1, <2>2 DEF ChaseOK, Pending, Waiting
  <2>3. CASE q # r
    BY <1>1, <2>1, <2>3, ChaseKept DEF Closed
  <2> QED BY <2>2, <2>3
<1> QED BY <1>2 DEF Chases

LEMMA ChaseWithdrawn ==
  ASSUME TypeOK, Chases, UNCHANGED state, NEW rs \in SUBSET Request, Withdrawn(rs),
         \A r \in rs : Pending(r)
  PROVE  Chases'
<1>1. /\ \A q \in rs : req'[q].status = "cancelled"
      /\ \A q \in Request \ rs : req'[q] = req[q]
      /\ chase' = Silenced(rs)
  BY WithdrawnTypes DEF Becomes, Withdrawn
<1>2. ASSUME NEW q \in Request PROVE ChaseOK(q)'
  <2>1. ChaseOK(q)
    BY DEF Chases
  <2>2. CASE q \in rs
    BY <1>1, <2>1, <2>2, ChaseSettled
  <2>3. CASE q \notin rs
    BY <1>1, <2>1, <2>3, ChaseSwept DEF Closed
  <2> QED BY <2>2, <2>3
<1> QED BY <1>2 DEF Chases

LEMMA ChaseStepped ==
  ASSUME TypeOK, Chases, NEW r \in Request, ChaseStep(r)
  PROVE  Chases'
<1>1. UNCHANGED <<state, req>>
  BY ChaseOnly DEF case
<1>2. ASSUME NEW q \in Request PROVE ChaseOK(q)'
  <2>1. ChaseOK(q)
    BY DEF Chases
  <2>2. CASE q # r
    <3>1. chase'[q] = chase[q]
      BY <2>2, ChaseTypes
    <3> QED BY <1>1, <2>1, <3>1, ChaseKept DEF Closed
  <2>3. CASE q = r
    <3>1. CASE /\ chase'[r].late = chase[r].late
               /\ \/ chase'[r].timer \in {"enqueued", "lost"}
                  \/ Pending(r) /\ chase'[r].timer = "firing"
                  \/ ~Pending(r) /\ chase'[r].timer = "none"
      <4>1. req[r].status # "absent"
        BY <2>1, <2>3 DEF ChaseStep, ChaseSent, ChaseRead, ChaseStops, ChaseCommit, ChaseFails,
                          ChaseLost, ChaseOK, Waiting
      <4> QED BY <1>1, <2>1, <2>3, <3>1, <4>1 DEF ChaseOK, Pending, Waiting, Closed
    <3>2. CASE /\ chase[r].timer = "firing" /\ chase'[r].timer = "next"
               /\ chase'[r].late = chase[r].late + IF Pending(r) THEN 0 ELSE 1
      <4>1. req[r].status # "absent" /\ chase[r].late = 0
        BY <2>1, <2>3, <3>2 DEF ChaseOK
      <4> QED BY <1>1, <2>1, <2>3, <3>2, <4>1 DEF ChaseOK, Pending, Waiting, Closed
    <3> QED BY <2>3, <3>1, <3>2, ChaseTypes
  <2> QED BY <2>2, <2>3
<1> QED BY <1>2 DEF Chases

LEMMA ChaseNext == Base /\ Settled /\ Chases /\ [Next]_vars => Chases'
<1> SUFFICES ASSUME Base, Settled, Chases, [Next]_vars PROVE Chases'
  OBVIOUS
<1>0. TypeOK
  BY DEF Base
<1>1. ASSUME NEW i \in Instance, Start(i) PROVE Chases'
  <2>1. \A j \in Instance : Closed(j) => Closed(j)'
    BY <1>0, <1>1, NotClosedUnstarted DEF Start, Closed, TypeOK
  <2>2. \A q \in Request : req[q].inst \in Instance \cup {NoInstance}
    BY <1>0 DEF TypeOK, RequestRow
  <2> QED BY <1>1, <2>1, <2>2, ChaseKept DEF Start, Chases
<1>2. ASSUME NEW i \in Instance, NEW tr \in Def.trans, Take(i, tr) PROVE Chases'
  <2>1. /\ Moved(i, tr, NoRequest, {}) /\ tr.from = state[i]
        /\ \A q \in Request \ {} : req'[q] = req[q]
    BY <1>2 DEF Take
  <2> QED BY <2>1, ChaseMoved
<1>3. ASSUME NEW r \in Request, CancelRequest(r) PROVE Chases'
  BY <1>0, <1>3, ChaseWithdrawn DEF CancelRequest, case
<1>4. ASSUME NEW r \in Request, NEW s \in Subject, Submit(r, s) PROVE Chases'
  BY <1>0, <1>4, ChaseOpened DEF Submit, case
<1>5. ASSUME NEW m \in Message, NEW r \in Request, HandleOpen(m, r) PROVE Chases'
  <2>1. m[1] \in Instance /\ SubjectOf[m[1]] \in Subject
    BY SubjectAssumption DEF Message
  <2>2. Opens[hist[m[1]][m[2]].tr] \in Action \cup {NoAction}
    BY <1>5, EffectAssumption DEF HandleOpen, Base, QueuedIsTaken
  <2>3. { l \in ledger : l[1] = m[1] /\ l[3] = "cancel" } \in SUBSET Message
    BY <1>0 DEF TypeOK
  <2> QED BY <1>0, <1>5, <2>1, <2>2, <2>3, ChaseOpened DEF HandleOpen, case
<1>6. ASSUME NEW m \in Message, HandleCancel(m) PROVE Chases'
  <2>1. PendingOf(m[1]) \in SUBSET Request /\ \A r \in PendingOf(m[1]) : Pending(r)
    BY DEF PendingOf
  <2> QED BY <1>0, <1>6, <2>1, ChaseWithdrawn DEF HandleCancel, case
<1>7. ASSUME NEW c \in Call, NEW v \in Verdict, Decide(c, v) PROVE Chases'
  <2>1. PICK r \in Request : r = deciding[c] /\ Pending(r)
    BY <1>0, <1>7 DEF Decide, TypeOK, Settled, LockHeld
  <2>2. /\ req'[r].status = v
        /\ \A q \in Request \ {r} : req'[q] = req[q]
    BY <1>0, <1>7, <2>1, RecordedTypes DEF Decide, Becomes
  <2>3. chase' = Silenced({r}) /\ {r} \in SUBSET Request /\ UNCHANGED state
    BY <1>7, <2>1 DEF Decide, case
  <2>4. ASSUME NEW q \in Request PROVE ChaseOK(q)'
    <3>1. ChaseOK(q)
      BY DEF Chases
    <3>2. CASE q = r
      BY <1>0, <2>1, <2>2, <2>3, <3>1, <3>2, ChaseSettled DEF Verdict
    <3>3. CASE q # r
      BY <1>0, <2>2, <2>3, <3>1, <3>3, ChaseSwept DEF Closed
    <3> QED BY <3>2, <3>3
  <2> QED BY <2>4 DEF Chases
<1>8. ASSUME NEW c \in Call, DecideAndMove(c) PROVE Chases'
  <2>1. PICK r \in Request : r = deciding[c] /\ Pending(r) /\ Moves(r)
    BY <1>0, <1>8 DEF DecideAndMove, TypeOK, Settled, LockHeld
  <2>2. /\ req'[r].status = "approved"
        /\ \A q \in Request \ {r} : req'[q] = req[q]
    <3>1. "approved" \in Verdict /\ deciding[c] # NoRequest
      BY <1>8 DEF DecideAndMove, Verdict
    <3> QED BY <1>0, <1>8, <2>1, <3>1, RecordedTypes DEF Becomes, DecideAndMove
  <2>3. PICK i \in Instance : i = req[r].inst
    BY <1>0, <2>1 DEF Moves, TypeOK, RequestRow
  <2>4. PICK tr \in Def.trans : Moved(i, tr, r, {r}) /\ tr.from = state[i]
    BY <1>8, <2>1, <2>3 DEF DecideAndMove, SystemMoves, TransitionsFor
  <2>5. \A q \in {r} : Pending(q) /\ req'[q].status \in {"approved", "rejected", "cancelled"}
    BY <2>1, <2>2
  <2> QED BY <2>2, <2>4, <2>5, ChaseMoved
<1>9. CASE UNCHANGED <<state, req, chase>>
  BY <1>9, ChaseKept DEF Chases, Closed
<1>10. ASSUME NEW m \in Message, HandleOpenWaived(m) \/ HandleOpenRefused(m) \/ Complete(m)
       PROVE  UNCHANGED <<state, req, chase>>
  BY <1>10 DEF HandleOpenWaived, HandleOpenRefused, Complete, case
<1>11. ASSUME NEW c \in Call, Abort(c) \/ \E r \in Request : Open(c, r)
       PROVE  UNCHANGED <<state, req, chase>>
  BY <1>11 DEF Abort, Open, case
<1>12. PeopleStep => UNCHANGED <<state, req, chase>>
  BY DEF PeopleStep, ChangeHolders, CreateDelegation, RevokeDelegation, case
<1>13. UNCHANGED vars => UNCHANGED <<state, req, chase>>
  BY DEF vars
<1>14. ASSUME NEW r \in Request, ChaseStep(r) PROVE Chases'
  BY <1>0, <1>14, ChaseStepped
<1> QED BY <1>1, <1>2, <1>3, <1>4, <1>5, <1>6, <1>7, <1>8, <1>9, <1>10, <1>11, <1>12, <1>13, <1>14
        DEF Next, CaseStep, HandlerStep, CallStep

\* At most one chase goes out after a request was settled, the one that had read it
\* before, and only that one leaves a timer; a waiting request is chased, unless the
\* message was lost or its case was closed.
THEOREM AlwaysChased == Spec => []ChasedWhileWaiting
<1>1. Init => Settled /\ Chases
  BY DEF Init, Settled, LockHeld, OneDecision, Chases, ChaseOK, Pending, Waiting, NoRow, Verdict
<1>2. Base /\ Settled /\ [Next]_vars => Settled'
  BY SettledNext
<1>3. Base /\ Settled /\ Chases /\ [Next]_vars => Chases'
  BY ChaseNext
<1>4. Chases => ChasedWhileWaiting
  BY DEF Chases, ChaseOK, ChasedWhileWaiting
<1> QED BY <1>1, <1>2, <1>3, <1>4, AlwaysBase, PTL DEF Spec

-----------------------------------------------------------------------------
(***************************************************************************)
(* An approval and the move of its case are one fact.                      *)
(***************************************************************************)
\* What the row `k` of case `i` says about the request that moved it.
RowExplained(i, k) ==
  LET r == hist[i][k].by
  IN IF r = NoRequest THEN hist[i][k].tr.by = "role"
     ELSE /\ req[r].status = "approved" /\ req[r].inst = i
          /\ hist[i][k].tr.action = req[r].action
          /\ \A m \in 1 .. Len(hist[i]) : hist[i][m].by = r => m = k

Mover(r) == /\ req[r].status = "approved" /\ req[r].inst # NoInstance /\ req[r].action # NoAction

LEMMA ApprovedIffMovedEq ==
  ApprovedIffMoved <=>
    /\ \A i \in Instance : \A k \in 1 .. Len(hist[i]) : RowExplained(i, k)
    /\ \A r \in Request : Mover(r) => \E k \in 1 .. Len(hist[req[r].inst]) : hist[req[r].inst][k].by = r
BY DEF ApprovedIffMoved, RowExplained, Mover

LEMMA RowTypes ==
  ASSUME TypeOK, NEW i \in Instance, NEW k \in 1 .. Len(hist[i])
  PROVE  hist[i][k].by \in Request \cup {NoRequest}
<1>1. hist[i] \in Seq(HistRow)
  BY DEF TypeOK
<1>2. hist[i][k] \in HistRow
  BY <1>1
<1> QED BY <1>2 DEF HistRow

\* Steps that move no case: what was approved stays as it was, and what becomes
\* approved has nothing to move.
LEMMA ExplainedKept ==
  ASSUME TypeOK, ApprovedIffMoved, UNCHANGED hist,
         \A r \in Request : req[r].status = "approved" => req'[r] = req[r],
         \A r \in Request : Mover(r)' => req[r].status = "approved"
  PROVE  ApprovedIffMoved'
<1>1. ASSUME NEW i \in Instance, NEW k \in 1 .. Len(hist[i]) PROVE RowExplained(i, k)'
  <2>1. RowExplained(i, k) /\ hist[i][k].by \in Request \cup {NoRequest}
    BY ApprovedIffMovedEq, RowTypes
  <2> QED BY <2>1 DEF RowExplained
<1>2. ASSUME NEW r \in Request, Mover(r)'
      PROVE  (\E k \in 1 .. Len(hist[req[r].inst]) : hist[req[r].inst][k].by = r)'
  <2>1. req'[r] = req[r] /\ Mover(r)
    BY <1>2 DEF Mover
  <2> QED BY <2>1, ApprovedIffMovedEq
<1> QED BY <1>1, <1>2, ApprovedIffMovedEq DEF ApprovedIffMoved, RowExplained, Mover

\* A case moves by `by`, an approved request bound to it or nobody.
LEMMA ExplainedMoved ==
  ASSUME Base, ApprovedIffMoved, NEW i \in Instance, NEW tr \in Def.trans,
         NEW by \in Request \cup {NoRequest}, NEW rs \in SUBSET Request,
         Len(hist[i]) < MaxMoves, Moved(i, tr, by, rs),
         \A r \in Request \ {by} : req'[r] = req[r],
         IF by = NoRequest THEN tr.by = "role"
         ELSE /\ req[by].status # "approved" /\ req'[by].status = "approved"
              /\ req'[by].inst = i /\ req'[by].action = tr.action
  PROVE  ApprovedIffMoved'
<1>2. hist[i] \in Seq(HistRow) /\ Len(hist[i]) \in Nat
  BY DEF Base, TypeOK
<1>0. PICK n \in Nat : n = Len(hist[i]) + 1
  BY <1>2
<1>1. /\ Len(hist'[i]) = n /\ hist'[i][n].tr = tr /\ hist'[i][n].by = by
      /\ \A k \in 1 .. Len(hist[i]) : hist'[i][k] = hist[i][k]
      /\ \A j \in Instance \ {i} : hist'[j] = hist[j]
  <2>1. /\ Len(hist'[i]) = n /\ hist'[i][n] = [tr |-> tr, by |-> by]
        /\ \A k \in 1 .. Len(hist[i]) : hist'[i][k] = hist[i][k]
        /\ \A j \in Instance \ {i} : hist'[j] = hist[j]
    BY <1>0, MovedTypes
  <2> QED BY <2>1
<1>3. n \in 1 .. n /\ \A k \in 1 .. n : k # n => k \in 1 .. Len(hist[i])
  BY <1>0, <1>2
<1>5. ASSUME NEW j \in Instance, NEW k \in 1 .. Len(hist[j])
      PROVE  /\ hist[j][k].by \in Request \cup {NoRequest}
             /\ hist[j][k].by # NoRequest =>
                  (hist[j][k].by # by /\ req'[hist[j][k].by] = req[hist[j][k].by])
             /\ RowExplained(j, k)
  BY ApprovedIffMovedEq, RowTypes DEF Base, RowExplained
<1>6. ASSUME NEW j \in Instance \ {i}, NEW k \in 1 .. Len(hist[j]) PROVE RowExplained(j, k)'
  BY <1>1, <1>5 DEF RowExplained
<1>7. ASSUME NEW k \in 1 .. Len(hist[i]) PROVE RowExplained(i, k)'
  <2>1. hist'[i][k] = hist[i][k] /\ RowExplained(i, k)
    BY <1>1, <1>5
  <2>2. ASSUME NEW m \in 1 .. n, hist'[i][m].by = hist[i][k].by, hist[i][k].by # NoRequest
        PROVE  m = k
    <3>1. m # n
      BY <1>1, <1>5, <2>2
    <3> QED BY <1>1, <1>3, <2>1, <2>2, <3>1 DEF RowExplained
  <2> QED BY <1>1, <1>5, <2>1, <2>2 DEF RowExplained
<1>8. RowExplained(i, n)'
  <2>1. ASSUME by # NoRequest, NEW m \in 1 .. n, hist'[i][m].by = by PROVE m = n
    BY <1>1, <1>3, <1>5, <2>1
  <2> QED BY <1>1, <2>1 DEF RowExplained
<1>9. ASSUME NEW j \in Instance, NEW k \in 1 .. Len(hist'[j]) PROVE RowExplained(j, k)'
  <2>1. CASE j # i
    <3>1. hist'[j] = hist[j]
      BY <1>1, <2>1
    <3>2. k \in 1 .. Len(hist[j])
      BY <3>1
    <3> QED BY <1>6, <2>1, <3>2
  <2>2. CASE j = i /\ k # n
    <3>1. k \in 1 .. n
      BY <1>1, <2>2
    <3>2. k \in 1 .. Len(hist[i])
      BY <1>3, <2>2, <3>1
    <3> QED BY <1>7, <2>2, <3>2
  <2>3. CASE j = i /\ k = n
    BY <1>3, <1>8, <2>3
  <2> QED BY <2>1, <2>2, <2>3
<1>10. ASSUME NEW r \in Request, Mover(r)'
       PROVE  (\E k \in 1 .. Len(hist[req[r].inst]) : hist[req[r].inst][k].by = r)'
  <2>1. CASE r = by
    BY <1>1, <1>3, <2>1, NullAssumption
  <2>2. CASE r # by
    <3>1. req'[r] = req[r] /\ Mover(r) /\ req[r].inst \in Instance
      BY <1>10, <2>2 DEF Mover, Base, TypeOK, RequestRow
    <3>2. PICK k \in 1 .. Len(hist[req[r].inst]) : hist[req[r].inst][k].by = r
      BY <3>1, ApprovedIffMovedEq
    <3>3. k \in 1 .. Len(hist'[req[r].inst]) /\ hist'[req[r].inst][k].by = r
      BY <1>0, <1>1, <1>2, <3>1, <3>2
    <3> QED BY <3>1, <3>3
  <2> QED BY <2>1, <2>2
<1> QED BY <1>9, <1>10, ApprovedIffMovedEq DEF ApprovedIffMoved, RowExplained, Mover

LEMMA ExplainedNext == Base /\ Settled /\ ApprovedIffMoved /\ [Next]_vars => ApprovedIffMoved'
<1> SUFFICES ASSUME Base, Settled, ApprovedIffMoved, [Next]_vars PROVE ApprovedIffMoved'
  OBVIOUS
<1>0. TypeOK
  BY DEF Base
<1>1. CASE UNCHANGED <<hist, req>>
  BY <1>0, <1>1, ExplainedKept DEF Mover
<1>2. ASSUME NEW i \in Instance, NEW tr \in Def.trans, Take(i, tr) PROVE ApprovedIffMoved'
  <2>1. /\ Moved(i, tr, NoRequest, {}) /\ tr.by = "role"
        /\ Len(hist[i]) < MaxMoves /\ \A r \in Request \ {NoRequest} : req'[r] = req[r]
    BY <1>0, <1>2 DEF Take, TypeOK
  <2> QED BY <2>1, ExplainedMoved
<1>3. ASSUME NEW rs \in SUBSET Request, \A r \in rs : Pending(r), Withdrawn(rs), UNCHANGED hist
      PROVE  ApprovedIffMoved'
  <2>1. /\ \A q \in rs : req'[q].status = "cancelled"
        /\ \A q \in Request \ rs : req'[q] = req[q]
    BY <1>0, <1>3, WithdrawnTypes DEF Becomes
  <2>2. \A q \in Request : req[q].status = "approved" => req'[q] = req[q]
    BY <1>3, <2>1 DEF Pending
  <2>3. \A q \in Request : Mover(q)' => req[q].status = "approved"
    BY <2>1 DEF Mover
  <2> QED BY <1>0, <1>3, <2>2, <2>3, ExplainedKept
<1>4. ASSUME NEW r \in Request, NEW s \in Subject, NEW i \in Instance \cup {NoInstance},
             NEW a \in Action \cup {NoAction}, NEW p \in SUBSET Message, Opened(r, s, i, a, p),
             req[r].status = "absent", UNCHANGED hist
      PROVE  ApprovedIffMoved'
  <2>1. req'[r].status = "pending" /\ \A q \in Request \ {r} : req'[q] = req[q]
    BY <1>0, <1>4, OpenedTypes
  <2>2. \A q \in Request : req[q].status = "approved" => req'[q] = req[q]
    BY <1>4, <2>1
  <2>3. \A q \in Request : Mover(q)' => req[q].status = "approved"
    BY <2>1 DEF Mover
  <2> QED BY <1>0, <1>4, <2>2, <2>3, ExplainedKept
<1>5. ASSUME NEW m \in Message, NEW r \in Request, HandleOpen(m, r) PROVE ApprovedIffMoved'
  <2>1. m[1] \in Instance /\ SubjectOf[m[1]] \in Subject
    BY SubjectAssumption DEF Message
  <2>2. Opens[hist[m[1]][m[2]].tr] \in Action \cup {NoAction}
    BY <1>5, EffectAssumption DEF HandleOpen, Base, QueuedIsTaken
  <2>3. { l \in ledger : l[1] = m[1] /\ l[3] = "cancel" } \in SUBSET Message
    BY <1>0 DEF TypeOK
  <2> QED BY <1>4, <1>5, <2>1, <2>2, <2>3 DEF HandleOpen, case
<1>6. ASSUME NEW r \in Request, NEW s \in Subject, Submit(r, s) PROVE ApprovedIffMoved'
  <2>1. NoInstance \in Instance \cup {NoInstance} /\ NoAction \in Action \cup {NoAction} /\ {} \in SUBSET Message
    OBVIOUS
  <2> QED BY <1>4, <1>6, <2>1 DEF Submit, case
<1>7. ASSUME NEW r \in Request, CancelRequest(r) PROVE ApprovedIffMoved'
  BY <1>3, <1>7 DEF CancelRequest, case
<1>8. ASSUME NEW m \in Message, HandleCancel(m) PROVE ApprovedIffMoved'
  BY <1>3, <1>8 DEF HandleCancel, PendingOf, case
<1>9. ASSUME NEW c \in Call, NEW v \in Verdict, Decide(c, v) PROVE ApprovedIffMoved'
  <2>1. PICK r \in Request : r = deciding[c] /\ Pending(r)
    BY <1>0, <1>9 DEF Decide, TypeOK, Settled, LockHeld
  <2>2. /\ Becomes(r, v) /\ \A q \in Request \ {r} : req'[q] = req[q]
    BY <1>0, <1>9, <2>1, RecordedTypes DEF Decide
  <2>3. \A q \in Request : req[q].status = "approved" => req'[q] = req[q]
    BY <2>1, <2>2 DEF Pending
  <2>4. v = "approved" => ~Moves(r)
    BY <1>9, <2>1 DEF Decide
  <2>5. \A q \in Request : Mover(q)' => req[q].status = "approved"
    BY <2>2, <2>4 DEF Mover, Becomes, Moves
  <2> QED BY <1>0, <1>9, <2>3, <2>5, ExplainedKept DEF Decide, case
<1>10. ASSUME NEW c \in Call, DecideAndMove(c) PROVE ApprovedIffMoved'
  <2>1. PICK r \in Request : r = deciding[c] /\ Pending(r) /\ Moves(r)
    BY <1>0, <1>10 DEF DecideAndMove, TypeOK, Settled, LockHeld
  <2>2. /\ Becomes(r, "approved") /\ \A q \in Request \ {r} : req'[q] = req[q]
    <3>1. "approved" \in Verdict /\ deciding[c] # NoRequest
      BY <1>10 DEF DecideAndMove, Verdict
    <3> QED BY <1>0, <1>10, <2>1, <3>1, RecordedTypes DEF DecideAndMove
  <2>3. PICK i \in Instance : i = req[r].inst
    BY <1>0, <2>1 DEF Moves, TypeOK, RequestRow
  <2>4. Len(hist[i]) < MaxMoves
    BY <1>10, <2>1, <2>3 DEF DecideAndMove
  <2>5. PICK tr \in Def.trans : /\ Moved(i, tr, r, {r}) /\ tr.action = req[r].action
    BY <1>10, <2>1, <2>3 DEF DecideAndMove, SystemMoves, TransitionsFor
  <2>6. {r} \in SUBSET Request /\ r \in Request \cup {NoRequest} /\ r # NoRequest
    BY NullAssumption
  <2>7. /\ req[r].status # "approved" /\ req'[r].status = "approved"
        /\ req'[r].inst = i /\ req'[r].action = tr.action
    BY <2>1, <2>2, <2>3, <2>5 DEF Pending, Becomes
  <2> QED BY <2>2, <2>4, <2>5, <2>6, <2>7, ExplainedMoved
<1>11. ASSUME NEW i \in Instance, Start(i) PROVE UNCHANGED <<hist, req>>
  BY <1>11 DEF Start
<1>12. ASSUME NEW m \in Message, HandleOpenWaived(m) \/ HandleOpenRefused(m) \/ Complete(m)
       PROVE  UNCHANGED <<hist, req>>
  BY <1>12 DEF HandleOpenWaived, HandleOpenRefused, Complete, case
<1>13. ASSUME NEW c \in Call, Abort(c) \/ \E r \in Request : Open(c, r)
       PROVE  UNCHANGED <<hist, req>>
  BY <1>13 DEF Abort, Open, case
<1>14. PeopleStep => UNCHANGED <<hist, req>>
  BY DEF PeopleStep, ChangeHolders, CreateDelegation, RevokeDelegation, case
<1>15. UNCHANGED vars => UNCHANGED <<hist, req>>
  BY DEF vars
<1>16. ASSUME NEW r \in Request, ChaseStep(r) PROVE UNCHANGED <<hist, req>>
  BY <1>16, ChaseOnly DEF case
<1> QED BY <1>1, <1>2, <1>5, <1>6, <1>7, <1>8, <1>9, <1>10, <1>11, <1>12, <1>13, <1>14, <1>15, <1>16
        DEF Next, CaseStep, HandlerStep, CallStep

\* A case takes a system transition only by an approval bound to it, and every
\* approval that authorises a move has made it, once.
THEOREM AlwaysApprovedIffMoved == Spec => []ApprovedIffMoved
<1>1. Init => Settled /\ ApprovedIffMoved
  BY DEF Init, Settled, LockHeld, OneDecision, ApprovedIffMoved, Pending, NoRow, Verdict
<1>2. Base /\ Settled /\ [Next]_vars => Settled'
  BY SettledNext
<1>3. Base /\ Settled /\ ApprovedIffMoved /\ [Next]_vars => ApprovedIffMoved'
  BY ExplainedNext
<1> QED BY <1>1, <1>2, <1>3, AlwaysBase, PTL DEF Spec
-----------------------------------------------------------------------------
(***************************************************************************)
(* The engine implements SignOff.  The cancel effect withdraws at most one *)
(* request: those of a case share its subject, and two never wait for one. *)
(***************************************************************************)
BoundSubject ==
  \A r \in Request : req[r].inst \in Instance => req[r].subject = SubjectOf[req[r].inst]

\* Rows that keep their subject and case keep BoundSubject.
LEMMA BoundKept ==
  ASSUME BoundSubject,
         \A r \in Request : req'[r].inst = req[r].inst /\ req'[r].subject = req[r].subject
  PROVE  BoundSubject'
BY DEF BoundSubject

LEMMA BoundOpened ==
  ASSUME TypeOK, BoundSubject, NEW r \in Request, NEW s \in Subject,
         NEW i \in Instance \cup {NoInstance}, NEW a \in Action \cup {NoAction}, NEW p \in SUBSET Message,
         Opened(r, s, i, a, p), i \in Instance => s = SubjectOf[i]
  PROVE  BoundSubject'
<1>1. /\ req'[r].subject = s /\ req'[r].inst = i
      /\ \A q \in Request \ {r} : req'[q] = req[q]
  BY OpenedTypes
<1> QED BY <1>1 DEF BoundSubject

LEMMA StepAsk ==
  ASSUME TypeOK, NEW r \in Request, NEW s \in Subject, NEW i \in Instance \cup {NoInstance},
         NEW a \in Action \cup {NoAction}, NEW p \in SUBSET Message, Opened(r, s, i, a, p),
         req[r].status = "absent", UNCHANGED state
  PROVE  Promise!Next
<1>1. /\ req'[r].status = "pending" /\ req'[r].inst = i /\ req'[r].action = a
      /\ \A q \in Request \ {r} : req'[q] = req[q]
  BY OpenedTypes
<1>2. Promise!Ask(r)
  BY <1>1 DEF Promise!Ask
<1> QED BY <1>2 DEF Promise!Next

LEMMA StepSettle ==
  ASSUME NEW r \in Request, NEW v \in {"approved", "rejected", "cancelled"}, Pending(r),
         Becomes(r, v), \A q \in Request \ {r} : req'[q] = req[q],
         v = "approved" => ~Moves(r), UNCHANGED state
  PROVE  Promise!Next
<1>1. Promise!Settle(r)
  BY DEF Promise!Settle, Pending, Becomes, Moves
<1> QED BY <1>1 DEF Promise!Next

LEMMA StepApprove ==
  ASSUME TypeOK, NEW r \in Request, NEW tr \in SystemMoves(r), Pending(r), Moves(r),
         Becomes(r, "approved"), \A q \in Request \ {r} : req'[q] = req[q],
         state' = [state EXCEPT ![req[r].inst] = tr.to]
  PROVE  Promise!Next
<1>1. /\ tr \in Def.trans /\ tr.by = "system" /\ tr.from = state[req[r].inst]
      /\ tr.action = req[r].action
  BY DEF SystemMoves, TransitionsFor
<1>2. Promise!Approve(r)
  BY <1>1 DEF Promise!Approve, Pending, Becomes, Moves
<1> QED BY <1>1, <1>2 DEF Promise!Next

LEMMA StepStutter ==
  ASSUME UNCHANGED <<state, req>>
  PROVE  UNCHANGED <<state,
           [r \in Request |-> IF req[r].status = "absent" THEN "unasked" ELSE req[r].status],
           [r \in Request |-> [inst |-> req[r].inst, action |-> req[r].action]]>>
OBVIOUS
\* Every step of the engine is a step of SignOff, or a stutter.
Mapped == BoundSubject' /\ (Promise!Next \/ UNCHANGED <<state, req>>)

LEMMA MappedNext == Base /\ Settled /\ BoundSubject /\ [Next]_vars => Mapped
<1> SUFFICES ASSUME Base, Settled, BoundSubject, [Next]_vars PROVE Mapped
  OBVIOUS
<1>0. TypeOK
  BY DEF Base
<1>1. CASE UNCHANGED <<state, req>>
  BY <1>1, BoundKept DEF Mapped
<1>2. ASSUME NEW i \in Instance, Start(i) PROVE Mapped
  <2>1. Promise!Start(i)
    BY <1>2 DEF Start, Promise!Start
  <2>2. UNCHANGED req
    BY <1>2 DEF Start
  <2> QED BY <2>1, <2>2, BoundKept DEF Mapped, Promise!Next
<1>3. ASSUME NEW i \in Instance, NEW tr \in Def.trans, Take(i, tr) PROVE Mapped
  <2>1. Promise!Take(i, tr)
    BY <1>3 DEF Take, Moved, Promise!Take
  <2>2. UNCHANGED req
    BY <1>3 DEF Take
  <2> QED BY <2>1, <2>2, BoundKept DEF Mapped, Promise!Next
<1>4. ASSUME NEW r \in Request, NEW s \in Subject, Submit(r, s) PROVE Mapped
  <2>1. /\ NoInstance \in Instance \cup {NoInstance} /\ NoAction \in Action \cup {NoAction} /\ {} \in SUBSET Message
        /\ NoInstance \notin Instance
    BY NullAssumption
  <2>2. BoundSubject'
    BY <1>0, <1>4, <2>1, BoundOpened DEF Submit
  <2>3. Promise!Next
    BY <1>0, <1>4, <2>1, StepAsk DEF Submit, case
  <2> QED BY <2>2, <2>3 DEF Mapped
<1>5. ASSUME NEW m \in Message, NEW r \in Request, HandleOpen(m, r) PROVE Mapped
  <2>1. m[1] \in Instance /\ SubjectOf[m[1]] \in Subject
    BY SubjectAssumption DEF Message
  <2>2. Opens[hist[m[1]][m[2]].tr] \in Action \cup {NoAction}
    BY <1>5, EffectAssumption DEF HandleOpen, Base, QueuedIsTaken
  <2>3. { l \in ledger : l[1] = m[1] /\ l[3] = "cancel" } \in SUBSET Message
    BY <1>0 DEF TypeOK
  <2>4. BoundSubject'
    BY <1>0, <1>5, <2>1, <2>2, <2>3, BoundOpened DEF HandleOpen
  <2>5. Promise!Next
    BY <1>0, <1>5, <2>1, <2>2, <2>3, StepAsk DEF HandleOpen, case
  <2> QED BY <2>4, <2>5 DEF Mapped
<1>6. ASSUME NEW rs \in SUBSET Request, Withdrawn(rs), \A r \in rs : Pending(r),
             \A r, q \in rs : r = q, UNCHANGED state
      PROVE  Mapped
  <2>1. /\ \A q \in rs : Becomes(q, "cancelled")
        /\ \A q \in Request \ rs : req'[q] = req[q]
        /\ req' \in [Request -> RequestRow]
    BY <1>0, <1>6, WithdrawnTypes
  <2>2. BoundSubject'
    BY <2>1, BoundKept DEF Becomes
  <2>3. CASE rs = {}
    <3>1. req' = req
      BY <1>0, <2>1, <2>3 DEF TypeOK
    <3> QED BY <1>6, <2>2, <3>1 DEF Mapped
  <2>4. CASE rs # {}
    <3>1. PICK r \in Request : rs = {r}
      BY <1>6, <2>4
    <3>2. Promise!Next
      BY <1>6, <2>1, <3>1, StepSettle
    <3> QED BY <2>2, <3>2 DEF Mapped
  <2> QED BY <2>3, <2>4
<1>7. ASSUME NEW r \in Request, CancelRequest(r) PROVE Mapped
  BY <1>6, <1>7 DEF CancelRequest, case
<1>8. ASSUME NEW m \in Message, HandleCancel(m) PROVE Mapped
  <2>1. PendingOf(m[1]) \in SUBSET Request /\ \A r \in PendingOf(m[1]) : Pending(r)
    BY DEF PendingOf
  <2>2. \A r, q \in PendingOf(m[1]) : r = q
    <3>1. m[1] \in Instance
      BY DEF Message
    <3>2. \A r \in PendingOf(m[1]) : req[r].subject = SubjectOf[m[1]] /\ Pending(r)
      BY <3>1 DEF PendingOf, BoundSubject
    <3> QED BY <2>1, <3>2 DEF Settled, OneDecision
  <2> QED BY <1>6, <1>8, <2>1, <2>2 DEF HandleCancel, case
<1>9. ASSUME NEW c \in Call, NEW v \in Verdict, Decide(c, v) PROVE Mapped
  <2>1. PICK r \in Request : r = deciding[c] /\ Pending(r)
    BY <1>0, <1>9 DEF Decide, TypeOK, Settled, LockHeld
  <2>2. Becomes(r, v) /\ \A q \in Request \ {r} : req'[q] = req[q]
    BY <1>0, <1>9, <2>1, RecordedTypes DEF Decide
  <2>3. BoundSubject'
    BY <2>2, BoundKept DEF Becomes
  <2>4. v \in {"approved", "rejected", "cancelled"} /\ (v = "approved" => ~Moves(r)) /\ UNCHANGED state
    BY <1>9, <2>1 DEF Decide, Verdict, case
  <2>5. Promise!Next
    BY <2>1, <2>2, <2>4, StepSettle
  <2> QED BY <2>3, <2>5 DEF Mapped
<1>10. ASSUME NEW c \in Call, DecideAndMove(c) PROVE Mapped
  <2>1. PICK r \in Request : r = deciding[c] /\ Pending(r) /\ Moves(r)
    BY <1>0, <1>10 DEF DecideAndMove, TypeOK, Settled, LockHeld
  <2>2. Becomes(r, "approved") /\ \A q \in Request \ {r} : req'[q] = req[q]
    <3>1. "approved" \in Verdict /\ deciding[c] # NoRequest
      BY <1>10 DEF DecideAndMove, Verdict
    <3> QED BY <1>0, <1>10, <2>1, <3>1, RecordedTypes DEF DecideAndMove
  <2>3. BoundSubject'
    BY <2>2, BoundKept DEF Becomes
  <2>4. PICK tr \in SystemMoves(r) : state' = [state EXCEPT ![req[r].inst] = tr.to]
    BY <1>10, <2>1 DEF DecideAndMove, Moved
  <2>5. Promise!Next
    BY <1>0, <2>1, <2>2, <2>4, StepApprove
  <2> QED BY <2>3, <2>5 DEF Mapped
<1>11. ASSUME NEW m \in Message, HandleOpenWaived(m) \/ HandleOpenRefused(m) \/ Complete(m)
       PROVE  UNCHANGED <<state, req>>
  BY <1>11 DEF HandleOpenWaived, HandleOpenRefused, Complete, case
<1>12. ASSUME NEW c \in Call, Abort(c) \/ \E r \in Request : Open(c, r)
       PROVE  UNCHANGED <<state, req>>
  BY <1>12 DEF Abort, Open, case
<1>13. PeopleStep => UNCHANGED <<state, req>>
  BY DEF PeopleStep, ChangeHolders, CreateDelegation, RevokeDelegation, case
<1>14. UNCHANGED vars => UNCHANGED <<state, req>>
  BY DEF vars
<1>15. ASSUME NEW r \in Request, ChaseStep(r) PROVE UNCHANGED <<state, req>>
  BY <1>15, ChaseOnly DEF case
<1> QED BY <1>1, <1>2, <1>3, <1>4, <1>5, <1>7, <1>8, <1>9, <1>10, <1>11, <1>12, <1>13, <1>14, <1>15
        DEF Next, CaseStep, HandlerStep, CallStep

\* The engine implements SignOff: one verdict each, and no system transition of a
\* case but in the step that approves the request bound to it.
THEOREM SignOffImplemented == Spec => ImplementsSignOff
<1>1. Init => Settled /\ BoundSubject
  BY NullAssumption DEF Init, Settled, LockHeld, OneDecision, Pending, NoRow, Verdict, BoundSubject
<1>2. Init => Promise!Init
  BY DEF Init, NoRow, Promise!Init, Promise!Unbound
<1>3. Base /\ Settled /\ [Next]_vars => Settled'
  BY SettledNext
<1>4. Base /\ Settled /\ BoundSubject /\ [Next]_vars => BoundSubject'
  BY MappedNext DEF Mapped
<1>5. Base /\ Settled /\ BoundSubject /\ [Next]_vars =>
        [Promise!Next]_<<state,
          [r \in Request |-> IF req[r].status = "absent" THEN "unasked" ELSE req[r].status],
          [r \in Request |-> [inst |-> req[r].inst, action |-> req[r].action]]>>
  BY MappedNext, StepStutter DEF Mapped
<1> QED BY <1>1, <1>2, <1>3, <1>4, <1>5, AlwaysBase, PTL DEF Spec, ImplementsSignOff, Promise!Spec
=============================================================================
