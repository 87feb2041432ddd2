--------------------------- MODULE CaseLifecycle ----------------------------
(***************************************************************************)
(* What the workflow runtime promises about a case: it starts at the       *)
(* initial state of one registered version of its definition, moves one    *)
(* transition of that same version at a time, and is completed by exactly  *)
(* the move that enters a terminal state.  No transactions, no locks, no   *)
(* timers: WorkflowRuntime is shown to implement it.                       *)
(***************************************************************************)
EXTENDS WorkflowDefinition

CONSTANTS Instance, Subject, SubjectOf, MaxVersion, Defs, NoState

VARIABLES pinned, state, done

Init ==
  /\ pinned = [i \in Instance |-> 1]
  /\ state = [i \in Instance |-> NoState]
  /\ done = [i \in Instance |-> FALSE]

\* A case may start when no other case about its subject is active.
Start(i, v) ==
  /\ state[i] = NoState
  /\ \A j \in Instance : SubjectOf[j] = SubjectOf[i] => (state[j] = NoState \/ done[j])
  /\ pinned' = [pinned EXCEPT ![i] = v]
  /\ state' = [state EXCEPT ![i] = Defs[v].initial]
  /\ UNCHANGED done

Move(i, tr) ==
  /\ ~done[i]
  /\ tr.from = state[i]
  /\ state' = [state EXCEPT ![i] = tr.to]
  /\ done' = [done EXCEPT ![i] = tr.to \in Defs[pinned[i]].terminal]
  /\ UNCHANGED pinned

Next ==
  \E i \in Instance :
    \/ \E v \in 1 .. MaxVersion : Start(i, v)
    \/ \E tr \in Defs[pinned[i]].trans : Move(i, tr)

Spec == Init /\ [][Next]_<<pinned, state, done>>
=============================================================================
