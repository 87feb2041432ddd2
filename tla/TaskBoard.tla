------------------------------ MODULE TaskBoard ------------------------------
(***************************************************************************)
(* What the task engine promises of a case: an unfinished task is open     *)
(* exactly when everything it waits on is finished or opened, from the     *)
(* moment it is raised and from the moment the last of it is.              *)
(***************************************************************************)
CONSTANTS Task, Gate, List, ListOf, Needs

VARIABLES status, gates

Init == /\ status = [t \in Task |-> "none"]
        /\ gates = {}

Met(t, st, gs) ==
  \A b \in Needs[t] : IF b \in Gate THEN b \in gs ELSE st[b] \in {"done", "cancelled"}

\* The tasks that are not finished stand where what they wait on puts them.
Settled(st, gs) ==
  [t \in Task |-> IF st[t] \in {"blocked", "open"}
                    THEN IF Met(t, st, gs) THEN "open" ELSE "blocked"
                    ELSE st[t]]

Finish(t) ==
  /\ \/ status[t] = "open" /\ status' = Settled([status EXCEPT ![t] = "done"], gates)
     \/ status[t] \in {"blocked", "open"}
        /\ status' = Settled([status EXCEPT ![t] = "cancelled"], gates)
  /\ UNCHANGED gates

OpenGate(g) == /\ gates' = gates \cup {g}
               /\ status' = Settled(status, gates')

Raise(l) ==
  /\ \A t \in Task : ListOf[t] = l => status[t] = "none"
  /\ status' = Settled([t \in Task |-> IF ListOf[t] = l THEN "blocked" ELSE status[t]], gates)
  /\ UNCHANGED gates

Next == \/ \E t \in Task : Finish(t)
        \/ \E g \in Gate : OpenGate(g)
        \/ \E l \in List : Raise(l)

Spec == Init /\ [][Next]_<<status, gates>>
=============================================================================
