---------------------------- MODULE MCTaskEngine -----------------------------
(* TaskEngine for TLC: the shipped pilot checklist, a joint task, a task raised
   late, a list with a cycle. *)
EXTENDS TaskEngine, TaskGraph, TLC

CONSTANTS a, b, c, d, e, g, early, late, cyclic

\* The pilot checklist: b waits on a, c on the verification gate.
Pilot == (a :> {}) @@ (b :> {a}) @@ (c :> {g})

\* c waits on a and b of its own list.
Joint == (a :> {}) @@ (b :> {}) @@ (c :> {a, b})
OneList == [t \in Task |-> early]

\* b waits on a and on the gate; a second list raises c behind both and the gate, and
\* a third two tasks that wait on each other.
Cyclic == (a :> {}) @@ (b :> {a, g}) @@ (c :> {a, b, g}) @@ (d :> {e}) @@ (e :> {d})
ThreeLists == (a :> early) @@ (b :> early) @@ (c :> late) @@ (d :> cyclic) @@ (e :> cyclic)
=============================================================================
