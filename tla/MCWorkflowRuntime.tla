------------------------- MODULE MCWorkflowRuntime --------------------------
(***************************************************************************)
(* Small instances of WorkflowRuntime.  Two versions of a request-shaped   *)
(* definition (demo-request.ts with one more step, so that a timer can be  *)
(* stale).                                                                 *)
(***************************************************************************)
EXTENDS WorkflowRuntime

MCState  == {"new", "review", "closed", "expired"}
MCAction == {"submit", "approve", "expire"}

T(f, t, a, by, guarded, sched) ==
  [from |-> f, to |-> t, action |-> a, by |-> by, guarded |-> guarded, sched |-> sched]

Submit   == T("new", "review", "submit", "role", FALSE, {"expire"})
Approve  == T("review", "closed", "approve", "role", TRUE, {})
ExpireR  == T("review", "expired", "expire", "system", FALSE, {})
ExpireN  == T("new", "review", "expire", "system", FALSE, {"expire"})

Def(trans, init) ==
  [states |-> {t.from : t \in trans} \cup {t.to : t \in trans}, initial |-> "new",
   terminal |-> {"closed", "expired"} \cap {t.to : t \in trans}, trans |-> trans, initSched |-> init]

RequestV1 == Def({Submit, Approve}, {})
RequestV2 == Def({Submit, Approve, ExpireR, ExpireN}, {"expire"})
Request   == <<RequestV1, RequestV2>>

OneSubject == [i \in Instance |-> CHOOSE s \in Subject : TRUE]
=============================================================================
