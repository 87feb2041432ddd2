--------------------------- MODULE ApprovalEngine ---------------------------
(***************************************************************************)
(* Sign-offs: opened standalone or by the approval.open effect of a case's *)
(* transition, decided by whoever the policy names at that moment, and     *)
(* withdrawn by their requester or by the approval.cancel effect.  Sources: *)
(* trpc/src/lib/approvals.ts, approval-effects.ts, routers/platform/       *)
(* approvals.ts, domain/src/approvals.                                     *)
(*                                                                         *)
(* A decision is one transaction: it locks the request row and resolves    *)
(* the policy (Open), then writes the verdict and moves the case, or rolls *)
(* back (Decide, Abort).  Opening, withdrawing and a person's move are one *)
(* guarded write each.  The effects of a committed transition reach their  *)
(* handlers in any order, at least once, past the consumption ledger (see  *)
(* OutboxRelay); each handler is one transaction.                          *)
(*                                                                         *)
(* Windows of grants and delegations are left out: what counts is who      *)
(* holds the role, and who covers for whom, when a decision looks.         *)
(* Of the chase of a request (ReminderSeries has its rows, claims and      *)
(* stamps) what counts is where its one current occurrence stands: waiting *)
(* in its row, out on the queue, being handled, or lost.                   *)
(* Bounds: the sets are finite, MaxMoves bounds the moves of one case,     *)
(* Member the people whose roles and cover change, and Chased is the set   *)
(* of requests whose chase comes due.                                      *)
(***************************************************************************)
EXTENDS WorkflowDefinition, Sequences

CONSTANTS Instance,    \* cases
          Subject,
          SubjectOf,   \* Instance -> Subject
          Request,     \* ids of approval_request rows
          Person,
          Member,      \* those who come to hold the roles of the policy
          Call,        \* decide calls in progress, one transaction each
          Def,         \* the definition of the cases
          Opens,       \* transitions naming approval.open -> its `action` parameter
          Cancels,     \* transitions naming approval.cancel
          MaxMoves,
          Chased,      \* the requests whose chase comes due in a run
          NoState, NoInstance, NoAction, NoRequest, NoSubject

Effect  == {"open", "cancel"}
Message == Instance \X (1 .. MaxMoves) \X Effect

ASSUME DefAssumption     == Def \in Definition /\ Valid(Def)
ASSUME SubjectAssumption == SubjectOf \in [Instance -> Subject]
ASSUME EffectAssumption  == /\ Opens \in [DOMAIN Opens -> Action \cup {NoAction}]
                            /\ DOMAIN Opens \subseteq Def.trans
                            /\ Cancels \subseteq Def.trans
ASSUME MovesAssumption   == MaxMoves \in Nat
ASSUME MemberAssumption  == Member \subseteq Person
ASSUME ChasedAssumption  == Chased \subseteq Request
ASSUME NullAssumption    == /\ NoState \notin State
                            /\ NoInstance \notin Instance
                            /\ NoAction \notin Action
                            /\ NoRequest \notin Request
                            /\ NoSubject \notin Subject

VARIABLES
  state,     \* Instance -> workflow_instance.current_state
  hist,      \* Instance -> its workflow_transition rows
  req,       \* Request -> approval_request row
  decided,   \* the approval_decision rows, append-only; `call` stands for their id
  chase,     \* Request -> where its current occurrence stands, and how many chases
             \* were sent after it was settled
  queue,     \* effect messages not yet completed
  ledger,    \* messages claimed in the consumption ledger
  met,       \* messages a handler has returned from at least once
  holders,   \* people the policy's roles resolve to
  cover,     \* delegations in force: delegator, delegate
  deciding   \* Call -> the request its open transaction has locked

case == <<state, hist>>
bus  == <<queue, ledger, met>>
team == <<holders, cover>>
vars == <<state, hist, req, decided, chase, queue, ledger, met, holders, cover, deciding>>

Status  == {"absent", "pending", "approved", "rejected", "cancelled"}
Verdict == {"approved", "rejected"}

NoRow == [status |-> "absent", subject |-> NoSubject, inst |-> NoInstance,
          action |-> NoAction, after |-> {}]

\* "first" and "next" wait in their row: only the first chase's names the case.
Timer == {"none", "first", "next", "enqueued", "firing", "lost"}
-----------------------------------------------------------------------------
Waiting(r) == chase[r].timer \in {"first", "next"}

Closed(i) == state[i] \in Def.terminal

Pending(r) == req[r].status = "pending"

\* Mutant: the cancel effect skips the rows a decision has locked.
UnlockedPendingOf(i) ==
  { r \in Request : Pending(r) /\ req[r].inst = i /\ \A c \in Call : deciding[c] # r }

PendingOf(i) == { r \in Request : Pending(r) /\ req[r].inst = i }

\* approval_request_one_pending_per_subject.
Taken(s) == \E r \in Request : Pending(r) /\ req[r].subject = s

\* Mutant: the request is read without FOR UPDATE and written unguarded.
NeverLocked(r) == FALSE

\* The row lock of the decision in progress.
Locked(r) == \E c \in Call : deciding[c] = r

\* expandApprovalPolicy: holders, and whoever covers for a holder; one hop.
Eligible == holders \cup { d[2] : d \in { e \in cover : e[1] \in holders } }

\* cancelScheduledActions: ends the occurrences of `rs` that still wait in their
\* row; one that is out, or being handled, it does not see.
Silenced(rs) ==
  [r \in Request |-> IF r \in rs /\ Waiting(r) THEN [chase[r] EXCEPT !.timer = "none"]
                                           ELSE chase[r]]

\* openApprovalRequest past its threshold: the row and its first chase.  `after` is
\* history: the cancel effects of its case that were handled before.
Opened(r, s, i, a, after) ==
  /\ req' = [req EXCEPT ![r] = [status |-> "pending", subject |-> s, inst |-> i,
                                action |-> a, after |-> after]]
  /\ chase' = [chase EXCEPT ![r].timer = "first"]

\* Mutant: a withdrawn request stays on the chase list.
WithdrawnChased(rs) ==
  /\ req' = [r \in Request |-> IF r \in rs THEN [req[r] EXCEPT !.status = "cancelled"] ELSE req[r]]
  /\ UNCHANGED chase

\* cancelApprovalRequest for every member of `rs`, and their reminders.
Withdrawn(rs) ==
  /\ req' = [r \in Request |-> IF r \in rs THEN [req[r] EXCEPT !.status = "cancelled"] ELSE req[r]]
  /\ chase' = Silenced(rs)

\* The part of executeTransitionIn the engine relies on: the row moves, the
\* transition row names the request that moved it, the effects are owed, and a
\* terminal state sweeps the timers of the case, of a request only its first
\* chase: the rows of the later ones carry no workflow_instance_id.  `rs` are the
\* requests whose reminders the same transaction cancels.
Moved(i, tr, by, rs) ==
  /\ state' = [state EXCEPT ![i] = tr.to]
  /\ hist' = [hist EXCEPT ![i] = Append(@, [tr |-> tr, by |-> by])]
  /\ queue' = queue
       \cup (IF tr \in DOMAIN Opens THEN {<<i, Len(hist[i]) + 1, "open">>} ELSE {})
       \cup (IF tr \in Cancels THEN {<<i, Len(hist[i]) + 1, "cancel">>} ELSE {})
  /\ chase' = Silenced(rs \cup
       (IF tr.to \in Def.terminal THEN { r \in Request : req[r].inst = i /\ chase[r].timer = "first" }
                                 ELSE {}))
-----------------------------------------------------------------------------
Init ==
  /\ state = [i \in Instance |-> NoState]
  /\ hist = [i \in Instance |-> <<>>]
  /\ req = [r \in Request |-> NoRow]
  /\ decided = {}
  /\ chase = [r \in Request |-> [timer |-> "none", late |-> 0]]
  /\ queue = {}
  /\ ledger = {}
  /\ met = {}
  /\ holders \in SUBSET Member
  /\ cover = {}
  /\ deciding = [c \in Call |-> NoRequest]

\* startWorkflow: one active case per subject.
Start(i) ==
  /\ state[i] = NoState
  /\ \A j \in Instance : SubjectOf[j] = SubjectOf[i] => (state[j] = NoState \/ Closed(j))
  /\ state' = [state EXCEPT ![i] = Def.initial]
  /\ UNCHANGED <<hist, req, decided, chase, bus, team, deciding>>

\* workflow.transition by a person.
Take(i, tr) ==
  /\ tr.from = state[i]
  /\ tr.by = "role"
  /\ Len(hist[i]) < MaxMoves
  /\ Moved(i, tr, NoRequest, {})
  /\ UNCHANGED <<req, decided, ledger, met, team, deciding>>

\* approvals.submit: a standalone sign-off on any subject.  Below the threshold,
\* or with one pending already, nothing is written.
Submit(r, s) ==
  /\ req[r].status = "absent"
  /\ ~Taken(s)
  /\ Opened(r, s, NoInstance, NoAction, {})
  /\ UNCHANGED <<case, decided, bus, team, deciding>>

\* approvals.cancel: UPDATE ... WHERE status = 'pending', which waits for a
\* decision's lock.
CancelRequest(r) ==
  /\ Pending(r)
  /\ ~Locked(r)
  /\ Withdrawn({r})
  /\ UNCHANGED <<case, decided, bus, team, deciding>>

\* recordConsumptionOnce, committed with the handler's work.
Claim(m) ==
  /\ m \notin ledger
  /\ ledger' = ledger \cup {m}
  /\ met' = met \cup {m}
  /\ UNCHANGED queue

\* openApprovalEffect: claims, and opens a request bound to the case.
HandleOpen(m, r) ==
  LET i == m[1]
      a == Opens[hist[i][m[2]].tr]
  IN /\ m \in queue /\ m[3] = "open"
     /\ Claim(m)
     /\ req[r].status = "absent"
     /\ ~Taken(SubjectOf[i])
     /\ Opened(r, SubjectOf[i], i, a, { l \in ledger : l[1] = i /\ l[3] = "cancel" })
     /\ UNCHANGED <<case, decided, team, deciding>>

\* ... or finds the threshold not met, and opens nothing.
HandleOpenWaived(m) ==
  /\ m \in queue /\ m[3] = "open"
  /\ Claim(m)
  /\ UNCHANGED <<case, req, decided, chase, team, deciding>>

\* ... or meets a pending request.  The unique violation has aborted the
\* transaction, so the claim goes with it; the handler returns all the same.
HandleOpenRefused(m) ==
  /\ m \in queue /\ m[3] = "open"
  /\ m \notin ledger
  /\ Taken(SubjectOf[m[1]])
  /\ met' = met \cup {m}
  /\ UNCHANGED <<case, req, decided, chase, queue, ledger, team, deciding>>

\* cancelApprovalEffect: withdraws what is pending for the case.  It waits for a
\* decision in progress; losing that race aborts it, and it is delivered again.
HandleCancel(m) ==
  /\ m \in queue /\ m[3] = "cancel"
  /\ Claim(m)
  /\ \A r \in PendingOf(m[1]) : ~Locked(r)
  /\ Withdrawn(PendingOf(m[1]))
  /\ UNCHANGED <<case, decided, team, deciding>>

\* The handler returned, with its claim, without it, or having found it taken.
Complete(m) ==
  /\ m \in queue
  /\ m \in met
  /\ queue' = queue \ {m}
  /\ UNCHANGED <<case, req, decided, chase, ledger, met, team, deciding>>
-----------------------------------------------------------------------------
\* decideApproval up to its authority check: the request row is locked, still
\* pending, and the policy, resolved now, admits whoever calls.
Open(c, r) ==
  /\ deciding[c] = NoRequest
  /\ Pending(r)
  /\ ~Locked(r)
  /\ Eligible # {}
  /\ deciding' = [deciding EXCEPT ![c] = r]
  /\ UNCHANGED <<case, req, decided, chase, bus, team>>

\* A request bound to a case, with an action: its approval moves the case.
Moves(r) == req[r].inst # NoInstance /\ req[r].action # NoAction

\* Mutant: the transition is looked up by its action alone.
SystemMovesAnywhere(r) == { tr \in Def.trans : tr.action = req[r].action /\ tr.by = "system" }

\* What executeTransitionIn finds for it, as the system, with no expected state.
SystemMoves(r) ==
  { tr \in TransitionsFor(Def, state[req[r].inst], req[r].action) : tr.by = "system" }

\* Verdict, decision row; the reminders are cancelled by Decide and Moved.
Recorded(c, v) ==
  /\ req' = [req EXCEPT ![deciding[c]].status = v]
  /\ decided' = decided \cup {[req |-> deciding[c], verdict |-> v, call |-> c]}
  /\ deciding' = [deciding EXCEPT ![c] = NoRequest]

\* The commit of a decision that moves nothing: a rejection, a standalone
\* sign-off, or one without an action.
Decide(c, v) ==
  /\ deciding[c] # NoRequest
  /\ v = "approved" => ~Moves(deciding[c])
  /\ Recorded(c, v)
  /\ chase' = Silenced({deciding[c]})
  /\ UNCHANGED <<case, bus, team>>

\* The commit of an approval and of the move it authorises, in one transaction.
DecideAndMove(c) ==
  LET r == deciding[c]
  IN /\ r # NoRequest
     /\ Moves(r)
     /\ Len(hist[req[r].inst]) < MaxMoves
     /\ \E tr \in SystemMoves(r) : Moved(req[r].inst, tr, r, {r})
     /\ Recorded(c, "approved")
     /\ UNCHANGED <<ledger, met, team>>

\* ApprovalTransitionError (the case left that state, a guard blocks), a lost
\* connection: everything rolls back.
Abort(c) ==
  /\ deciding[c] # NoRequest
  /\ deciding' = [deciding EXCEPT ![c] = NoRequest]
  /\ UNCHANGED <<case, req, decided, chase, bus, team>>

\* Grants and revocations; delegations made and ended.
ChangeHolders(p) ==
  /\ holders' = IF p \in holders THEN holders \ {p} ELSE holders \cup {p}
  /\ UNCHANGED <<case, req, decided, chase, bus, cover, deciding>>

CreateDelegation(p, q) ==
  /\ p # q
  /\ <<p, q>> \notin cover
  /\ cover' = cover \cup {<<p, q>>}
  /\ UNCHANGED <<case, req, decided, chase, bus, holders, deciding>>

RevokeDelegation(p, q) ==
  /\ <<p, q>> \in cover
  /\ cover' = cover \ {<<p, q>>}
  /\ UNCHANGED <<case, req, decided, chase, bus, holders, deciding>>

-----------------------------------------------------------------------------
\* A scheduler run sends the due occurrence and stamps its row.
ChaseSent(r) ==
  /\ r \in Chased
  /\ Waiting(r)
  /\ chase' = [chase EXCEPT ![r].timer = "enqueued"]
  /\ UNCHANGED <<case, req, decided, bus, team, deciding>>

\* reminderEffect up to isSatisfied, a plain read: the request has not been
\* settled, as far as committed transactions say.
ChaseRead(r) ==
  /\ chase[r].timer = "enqueued"
  /\ Pending(r)
  /\ chase' = [chase EXCEPT ![r].timer = "firing"]
  /\ UNCHANGED <<case, req, decided, bus, team, deciding>>

\* ... or has been, and the series stops.
ChaseStops(r) ==
  /\ chase[r].timer = "enqueued"
  /\ ~Pending(r)
  /\ chase' = [chase EXCEPT ![r].timer = "none"]
  /\ UNCHANGED <<case, req, decided, bus, team, deciding>>

\* Its commit: the chase is sent, and the next occurrence inserted, without the
\* case.  The request may have been settled since it was read.  A commit between
\* the SELECT of cancelReminders and the settling commit counts as after both.
ChaseCommit(r) ==
  /\ chase[r].timer = "firing"
  /\ chase' = [chase EXCEPT ![r] = [timer |-> "next", late |-> @.late + IF Pending(r) THEN 0 ELSE 1]]
  /\ UNCHANGED <<case, req, decided, bus, team, deciding>>

\* Its rollback: the message is delivered again.
ChaseFails(r) ==
  /\ chase[r].timer = "firing"
  /\ chase' = [chase EXCEPT ![r].timer = "enqueued"]
  /\ UNCHANGED <<case, req, decided, bus, team, deciding>>

\* The two ways ReminderSeries has of losing it: the message is dead-lettered, or
\* was received before its stamp and put away as a duplicate.
ChaseLost(r) ==
  /\ chase[r].timer = "enqueued"
  /\ chase' = [chase EXCEPT ![r].timer = "lost"]
  /\ UNCHANGED <<case, req, decided, bus, team, deciding>>

ChaseStep(r) ==
  \/ ChaseSent(r) \/ ChaseRead(r) \/ ChaseStops(r)
  \/ ChaseCommit(r) \/ ChaseFails(r) \/ ChaseLost(r)
-----------------------------------------------------------------------------
CaseStep == \E i \in Instance : Start(i) \/ \E tr \in Def.trans : Take(i, tr)

HandlerStep(m) ==
  \/ \E r \in Request : HandleOpen(m, r)
  \/ HandleOpenWaived(m)
  \/ HandleOpenRefused(m)
  \/ HandleCancel(m)
  \/ Complete(m)

CallStep(c) ==
  \/ \E r \in Request : Open(c, r)
  \/ \E v \in Verdict : Decide(c, v)
  \/ DecideAndMove(c)
  \/ Abort(c)

PeopleStep == \E p \in Member : \/ ChangeHolders(p)
                                \/ \E q \in Person : CreateDelegation(p, q) \/ RevokeDelegation(p, q)

Next ==
  \/ CaseStep
  \/ \E r \in Request : CancelRequest(r) \/ \E s \in Subject : Submit(r, s)
  \/ \E m \in Message : HandlerStep(m)
  \/ \E r \in Request : ChaseStep(r)
  \/ \E c \in Call : CallStep(c)
  \/ PeopleStep

Spec == Init /\ [][Next]_vars
-----------------------------------------------------------------------------
(***************************************************************************)
(* Properties.                                                             *)
(***************************************************************************)
HistRow == [tr : Def.trans, by : Request \cup {NoRequest}]

RequestRow == [status : Status, subject : Subject \cup {NoSubject},
               inst : Instance \cup {NoInstance}, action : Action \cup {NoAction}, after : SUBSET Message]

ChaseRow == [timer : Timer, late : Nat]

DecisionRow == [req : Request, verdict : Verdict, call : Call]

\* Type invariant of the cases, the requests, their decisions and the effects.
TypeOK ==
  /\ state \in [Instance -> State \cup {NoState}]
  /\ hist \in [Instance -> Seq(HistRow)]
  /\ req \in [Request -> RequestRow]
  /\ decided \subseteq DecisionRow
  /\ chase \in [Request -> ChaseRow]
  /\ queue \subseteq Message
  /\ ledger \subseteq Message
  /\ met \subseteq Message
  /\ holders \subseteq Member
  /\ cover \subseteq Member \X Person
  /\ deciding \in [Call -> Request \cup {NoRequest}]

\* PL-016, "any one approves", and the one-pending index.  However approvers,
\* the requester and the cancel effect race, a request is approved or rejected by
\* exactly one decision row, one that was withdrawn or still waits has none, and
\* two requests never wait for one subject.
OneDecision ==
  /\ \A r \in Request : req[r].status \in Verdict <=> \E d \in decided : d.req = r
  /\ \A d, e \in decided : d.req = e.req => d = e
  /\ \A d \in decided : d.verdict = req[d.req].status
  /\ \A r, s \in Request : (Pending(r) /\ Pending(s) /\ req[r].subject = req[s].subject) => r = s

\* AC-D7: a decision and the case move it authorises are one fact.  A case takes a
\* system transition only by an approval bound to it with that action, and every
\* such approval has moved its case exactly once.
ApprovedIffMoved ==
  /\ \A i \in Instance : \A k \in 1 .. Len(hist[i]) :
       LET r == hist[i][k].by
       IN IF r = NoRequest THEN hist[i][k].tr.by = "role"
          ELSE /\ req[r].status = "approved"
               /\ req[r].inst = i
               /\ hist[i][k].tr.action = req[r].action
               /\ \A m \in 1 .. Len(hist[i]) : hist[i][m].by = r => m = k
  /\ \A r \in Request :
       (req[r].status = "approved" /\ req[r].inst # NoInstance /\ req[r].action # NoAction)
         => \E k \in 1 .. Len(hist[req[r].inst]) : hist[req[r].inst][k].by = r

\* cancelApprovalReminders, isSatisfied and the terminal sweep.  Whatever a decision
\* or a withdrawal overlaps, at most one chase goes out after it, the one that had
\* read the request before, and only that one leaves a timer behind.  A request
\* that still waits is chased, unless the message was lost or its case was closed.
ChasedWhileWaiting ==
  /\ \A r \in Request : chase[r].late <= 1
  /\ \A r \in Request : ~Pending(r) /\ Waiting(r) => chase[r].late = 1
  /\ \A r \in Request : Pending(r) /\ chase[r].timer = "none" =>
       req[r].inst # NoInstance /\ Closed(req[r].inst)

\* approvals.ts: "one redundant chase, never a chase after a decision".
NeverChasedAfterDecision == \A r \in Request : chase[r].late = 0

\* The only way a request outlives the transition that withdraws it: the cancel
\* effect was handled before the request was opened.
OnlyOvertakingOutlives ==
  \A r \in Request : Pending(r) =>
    \A m \in ledger : m[1] = req[r].inst /\ m[3] = "cancel" => m \in req[r].after

\* approval-effects.ts: "so a request never outlives the thing it was about".
NoRequestOutlivesItsCase ==
  queue = {} => \A r \in Request : Pending(r) => (req[r].inst = NoInstance \/ ~Closed(req[r].inst))

\* The engine keeps the promises of SignOff: one verdict each, an approval and
\* the move of its case in one step.
Promise == INSTANCE SignOff WITH
  verdict <- [r \in Request |-> IF req[r].status = "absent" THEN "unasked" ELSE req[r].status],
  bound <- [r \in Request |-> [inst |-> req[r].inst, action |-> req[r].action]]

ImplementsSignOff == Promise!Spec
=============================================================================
