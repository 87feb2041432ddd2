------------------------------- MODULE SignOff -------------------------------
(***************************************************************************)
(* What the approval engine promises: a sign-off is asked, and then        *)
(* settled once, by one verdict.  An approval that carries an action and   *)
(* the move of the case it authorises are a single fact, and a case takes  *)
(* its system transitions in no other way.  No messages, no locks, no      *)
(* policy: ApprovalEngine is shown to implement it.                        *)
(***************************************************************************)
EXTENDS WorkflowDefinition

CONSTANTS Instance, Request, Def, NoState, NoInstance, NoAction

VARIABLES state,     \* Instance -> State
          verdict,   \* Request -> what became of it
          bound      \* Request -> the case and the action it is about

Unbound == [inst |-> NoInstance, action |-> NoAction]

Init ==
  /\ state = [i \in Instance |-> NoState]
  /\ verdict = [r \in Request |-> "unasked"]
  /\ bound = [r \in Request |-> Unbound]

Start(i) ==
  /\ state[i] = NoState
  /\ state' = [state EXCEPT ![i] = Def.initial]
  /\ UNCHANGED <<verdict, bound>>

\* People take the transitions that are theirs.
Take(i, tr) ==
  /\ tr.by = "role"
  /\ tr.from = state[i]
  /\ state' = [state EXCEPT ![i] = tr.to]
  /\ UNCHANGED <<verdict, bound>>

Ask(r) ==
  /\ verdict[r] = "unasked"
  /\ verdict' = [verdict EXCEPT ![r] = "pending"]
  /\ \E i \in Instance \cup {NoInstance}, a \in Action \cup {NoAction} :
       bound' = [bound EXCEPT ![r] = [inst |-> i, action |-> a]]
  /\ UNCHANGED state

\* Settled without moving anything.
Settle(r) ==
  /\ verdict[r] = "pending"
  /\ \E v \in {"approved", "rejected", "cancelled"} :
       /\ verdict' = [verdict EXCEPT ![r] = v]
       /\ v = "approved" => (bound[r].inst = NoInstance \/ bound[r].action = NoAction)
  /\ UNCHANGED <<state, bound>>

\* Approved, and the case it is about moves by it.
Approve(r) ==
  /\ verdict[r] = "pending"
  /\ verdict' = [verdict EXCEPT ![r] = "approved"]
  /\ bound[r].inst # NoInstance
  /\ \E tr \in Def.trans :
       /\ tr.from = state[bound[r].inst]
       /\ tr.action = bound[r].action
       /\ tr.by = "system"
       /\ state' = [state EXCEPT ![bound[r].inst] = tr.to]
  /\ UNCHANGED bound

Next ==
  \/ \E i \in Instance : Start(i) \/ \E tr \in Def.trans : Take(i, tr)
  \/ \E r \in Request : Ask(r) \/ Settle(r) \/ Approve(r)

Spec == Init /\ [][Next]_<<state, verdict, bound>>
=============================================================================
