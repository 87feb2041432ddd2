-------------------------- MODULE MCApprovalEngine --------------------------
(***************************************************************************)
(* Small instances of ApprovalEngine: platform.pilot.signoff, with one or  *)
(* two cases about one subject.                                            *)
(***************************************************************************)
EXTENDS ApprovalEngine, ApprovalPolicy, TLC

MCState  == {"draft", "awaiting_approval", "approved", "rejected", "withdrawn"}
MCAction == {"submit", "approve", "reject", "withdraw"}

T(f, t, a, by) == [from |-> f, to |-> t, action |-> a, by |-> by, guarded |-> FALSE, sched |-> {}]

SubmitT   == T("draft", "awaiting_approval", "submit", "role")
ApproveT  == T("awaiting_approval", "approved", "approve", "system")
RejectT   == T("awaiting_approval", "rejected", "reject", "system")
WithdrawT == T("awaiting_approval", "withdrawn", "withdraw", "role")

PilotSignoff == [states |-> MCState, initial |-> "draft",
                 terminal |-> {"approved", "rejected", "withdrawn"},
                 trans |-> {SubmitT, ApproveT, RejectT, WithdrawT}, initSched |-> {}]

PilotOpens   == [tr \in {SubmitT} |-> "approve"]
PilotCancels == {WithdrawT}

OneSubject == [i \in Instance |-> CHOOSE s \in Subject : TRUE]

\* The request that is chased, and the member of the role, are named in the cfg.
Sym == Permutations(Instance) \cup Permutations(Call)
=============================================================================
