------------------------- MODULE WorkflowDefinition -------------------------
(***************************************************************************)
(* The workflow definition model and the checks `defineWorkflow` runs      *)
(* before a definition is registered (domain/src/workflow/define.ts), and  *)
(* the pure lookup at the heart of `evaluateTransition` (evaluate.ts).     *)
(*                                                                         *)
(* A definition is a record                                                *)
(*   [states, initial, terminal, trans, initSched]                         *)
(* where `trans` is a set of [from, to, action, by, guarded, sched]:       *)
(* `by` is "system" or "role" (a configRef policy resolves to a role),     *)
(* `guarded` says whether a hard guard may block the transition, `sched`   *)
(* holds the action names of the workflow.transition timers it creates.    *)
(* Key and module patterns, JSON serialisability and delays are left out.  *)
(***************************************************************************)
EXTENDS Integers, FiniteSets

CONSTANTS State,      \* every state name any definition may use
          Action      \* every action name any definition may use

Policy == {"system", "role"}

TransitionDef == [from : State, to : State, action : Action,
                  by : Policy, guarded : BOOLEAN, sched : SUBSET Action]

Definition == [states : SUBSET State, initial : State, terminal : SUBSET State,
               trans : SUBSET TransitionDef, initSched : SUBSET Action]

\* `enters` of define.ts: the states one transition away from `s`.
Enters(def, s) == { t.to : t \in { u \in def.trans : u.from = s } }

\* The states every closed set around the initial state contains: what the
\* breadth-first loop of defineWorkflow computes.
Reachable(def) ==
  { s \in def.states :
      \A S \in SUBSET def.states :
        (def.initial \in S /\ \A x \in S : Enters(def, x) \subseteq S) => s \in S }

\* The structural part of defineWorkflow: names resolve, the initial state can
\* move, nothing leaves a terminal state, and (from, action) is a key.
WellFormed(def) ==
  /\ def.initial \in def.states \ def.terminal
  /\ def.terminal \subseteq def.states
  /\ \A t \in def.trans : t.from \in def.states \ def.terminal /\ t.to \in def.states
  /\ \A t, u \in def.trans : (t.from = u.from /\ t.action = u.action) => t = u

\* The graph part: no unreachable state, no non-terminal dead end.
NoDeadEnds(def) ==
  /\ Reachable(def) = def.states
  /\ \A s \in def.states \ def.terminal : Enters(def, s) # {}

\* defineWorkflow accepts `def`.
Valid(def) == WellFormed(def) /\ NoDeadEnds(def)

\* The transitions `evaluateTransition` may find: at most one when WellFormed.
TransitionsFor(def, s, a) == { t \in def.trans : t.from = s /\ t.action = a }

=============================================================================
