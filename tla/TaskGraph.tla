------------------------------- MODULE TaskGraph -------------------------------
(***************************************************************************)
(* The reasoning about task dependencies that needs no state               *)
(* (domain/src/tasks/dependency-graph.ts, lists.ts): Kahn's algorithm over *)
(* the edges of a case, the cycle it reports, and the acceptance of a list *)
(* definition.  TaskEngine uses what Kahn's algorithm means; here it is    *)
(* spelled out as the code computes it.  At the end, claims on one task    *)
(* (lib/tasks.ts), which change nothing the engine looks at.               *)
(*                                                                         *)
(* An edge is a pair <<task, prerequisite>>.  The iteration order of the   *)
(* Maps and Sets of the code is the order of the numbers, or reversed: the *)
(* results must not depend on it, only the reported cycle does.            *)
(***************************************************************************)
LOCAL INSTANCE Integers
LOCAL INSTANCE Sequences
LOCAL INSTANCE SequencesExt
LOCAL INSTANCE FiniteSets

\* outstanding, as built from the edges: task -> prerequisites, for every node.
Outstanding(edges) ==
  [ n \in { e[1] : e \in edges } \cup { e[2] : e \in edges } |-> { e[2] : e \in { d \in edges : d[1] = n } } ]

Dependents(edges, n) == { e[1] : e \in { d \in edges : d[2] = n } }

\* The while loop: ready is a stack, and settling a task frees its dependents.
RECURSIVE Settle(_, _, _, _)
Settle(edges, outstanding, ready, settled) ==
  IF ready = <<>> THEN [outstanding |-> outstanding, settled |-> settled]
  ELSE LET task  == Last(ready)
           left  == [ n \in DOMAIN outstanding |->
                        IF n \in Dependents(edges, task) THEN outstanding[n] \ {task} ELSE outstanding[n] ]
           freed == { n \in Dependents(edges, task) : left[n] = {} }
       IN Settle(edges, left, Front(ready) \o SetToSeq(freed), settled \cup {task})

\* From a stuck node to any stuck prerequisite, until a node repeats.
RECURSIVE Walk(_, _, _)
Walk(stuck, outstanding, path) ==
  LET node == Last(path)
      seen == { i \in 1 .. Len(path) - 1 : path[i] = node }
      on   == outstanding[node] \cap stuck
  IN IF seen # {} THEN SubSeq(path, CHOOSE i \in seen : TRUE, Len(path))
     ELSE IF on = {} THEN path
     ELSE Walk(stuck, outstanding, Append(path, CHOOSE n \in on : TRUE))

\* assertAcyclic: the cycle it throws, or <<>>.
CycleIn(edges) ==
  LET loops == { e \in edges : e[1] = e[2] }
      out   == Outstanding(edges)
      ready == SetToSeq({ n \in DOMAIN out : out[n] = {} })
      end   == Settle(edges, out, ready, {})
      stuck == DOMAIN out \ end.settled
  IN IF loops # {} THEN CHOOSE e \in loops : TRUE
     ELSE IF stuck = {} THEN <<>>
     ELSE Walk(stuck, end.outstanding, <<CHOOSE n \in stuck : TRUE>>)

\* defineTaskList: a list is a sequence of items, each with a ref and what it depends on.
ListEdges(list) == UNION { { <<list[i].ref, d>> : d \in list[i].dependsOn } : i \in DOMAIN list }

Defines(list) ==
  LET refs == { list[i].ref : i \in DOMAIN list }
  IN /\ list # <<>>
     /\ \A i, j \in DOMAIN list : list[i].ref = list[j].ref => i = j
     /\ \A i \in DOMAIN list : list[i].dependsOn \subseteq refs
     /\ CycleIn(ListEdges(list)) = <<>>
-----------------------------------------------------------------------------
(***************************************************************************)
(* TaskGraph against its meaning, over every set of edges of three tasks,  *)
(* with edges of a task to itself, and of four without.                    *)
(***************************************************************************)
LOCAL Pairs(n) == (1 .. n) \X (1 .. n)
LOCAL EdgeSets == SUBSET Pairs(3) \cup SUBSET { e \in Pairs(4) : e[1] # e[2] }

\* A set of tasks each of which waits on another of the set.
LOCAL Knotted(edges) ==
  \E S \in SUBSET (1 .. 4) \ {{}} : \A t \in S : \E u \in S : <<t, u>> \in edges

\* assertAcyclic refuses exactly the graphs in which some tasks could never start:
\* not those merely downstream of nothing, and none of those with a cycle.
ASSUME KahnFindsCycles == \A es \in EdgeSets : (CycleIn(es) # <<>>) <=> Knotted(es)

\* The path a CycleError reports is the loop itself: it closes, follows edges, and
\* repeats nothing but its end, however the walk entered it.
ASSUME ReportedCycleIsOne ==
  \A es \in EdgeSets :
    LET path == CycleIn(es)
    IN path # <<>> =>
         /\ Len(path) > 1 /\ path[1] = path[Len(path)]
         /\ \A i \in 1 .. Len(path) - 1 : <<path[i], path[i + 1]>> \in es
         /\ Cardinality({ path[i] : i \in 1 .. Len(path) }) = Len(path) - 1

\* Callers pass the combined edges: a graph is refused when either half is, but two
\* halves that are accepted may together be refused.
ASSUME HalvesDoNotSuffice ==
  /\ \A a, b \in SUBSET Pairs(2) : CycleIn(a) # <<>> => CycleIn(a \cup b) # <<>>
  /\ \E a, b \in SUBSET Pairs(2) : CycleIn(a) = <<>> /\ CycleIn(b) = <<>> /\ CycleIn(a \cup b) # <<>>

\* A list that can be defined can be worked off: its items have an order in which each
\* comes after what it depends on.
LOCAL Items == [ref : 1 .. 3, dependsOn : SUBSET (1 .. 3)]
LOCAL Lists == UNION { [1 .. n -> Items] : n \in 0 .. 2 } \cup
               { l \in [1 .. 3 -> Items] : \A i \in 1 .. 3 : l[i].ref = i }
ASSUME DefinedListsCanBeWorkedOff ==
  \A l \in Lists : Defines(l) =>
    \E place \in [DOMAIN l -> 1 .. 3] :
      \A i, j \in DOMAIN l : l[j].ref \in l[i].dependsOn => place[j] < place[i]


(***************************************************************************)
(* One task in the hands of two persons, one of whom may hold its role     *)
(* (lib/tasks.ts): every call locks the row first, so calls come in a row. *)
(* A call that is refused leaves the task as it is.                        *)
(***************************************************************************)
Nobody == "nobody"
Finished(t) == t.status \in {"done", "cancelled"}

ClaimTask(t, who, inRole)   == IF ~Finished(t) /\ inRole THEN [t EXCEPT !.claimedBy = who] ELSE t
ReleaseTask(t, who, inRole) == IF inRole THEN [t EXCEPT !.claimedBy = Nobody] ELSE t

\* completeTask, as far as the task itself goes: oversight may stand in for the role.
CompleteTask(t, who, inRole, oversight) ==
  IF t.status = "open" /\ (inRole \/ oversight)
  THEN [t EXCEPT !.status = "done", !.completedBy = who, !.override = ~inRole] ELSE t

LOCAL Persons == {"ann", "ben"}
LOCAL Calls == {"claim", "release", "complete"} \X Persons
LOCAL After(t, calls, role, oversight) ==
  LET apply(u, c) == CASE c[1] = "claim"    -> ClaimTask(u, c[2], role[c[2]])
                       [] c[1] = "release"  -> ReleaseTask(u, c[2], role[c[2]])
                       [] c[1] = "complete" -> CompleteTask(u, c[2], role[c[2]], oversight[c[2]])
  IN FoldLeft(apply, t, calls)

\* "A claim is metadata, not a state": whatever was claimed and given up on the way, a task
\* is finished by whom and as it would be without, and nobody who lacks the role holds it;
\* though a claim on a finished task can still be given up, and a colleague's taken over.
ASSUME ClaimsAreMetadata ==
  \A status \in {"blocked", "open", "done", "cancelled"}, role, oversight \in [Persons -> BOOLEAN] :
    LET task == [status |-> status, claimedBy |-> Nobody, completedBy |-> Nobody, override |-> FALSE]
    IN \A calls \in [1 .. 3 -> Calls] :
         LET end   == After(task, calls, role, oversight)
             plain == After(task, SelectSeq(calls, LAMBDA c : c[1] = "complete"), role, oversight)
         IN /\ [end EXCEPT !.claimedBy = Nobody] = plain
            /\ end.claimedBy # Nobody => role[end.claimedBy]
            /\ end.override => ~role[end.completedBy] /\ oversight[end.completedBy]
            /\ Finished(task) => end = task
            /\ calls[3][1] = "release" /\ role[calls[3][2]] => end.claimedBy = Nobody
            /\ calls[3][1] = "claim" /\ role[calls[3][2]] /\ ~Finished(plain) => end.claimedBy = calls[3][2]
=============================================================================
