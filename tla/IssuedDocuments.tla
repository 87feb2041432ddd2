-------------------------- MODULE IssuedDocuments ---------------------------
(***************************************************************************)
(* What the document engine promises the people who issue and sign: a      *)
(* document is issued once, to be answered or for information, in an order *)
(* or in none; its bytes are bound to it once; it is answered once, no     *)
(* sooner than those before it, and a signature is on the bytes bound.     *)
(* Nothing answered is withdrawn.  No queue, no store, no rendering:       *)
(* DocumentEngine is shown to implement it.                                *)
(***************************************************************************)
EXTENDS Naturals

CONSTANTS Doc, Bytes, None

VARIABLES phase,   \* Doc -> "draft", "open", "info", "answered" or "withdrawn"
          before,  \* Doc -> the documents to be answered before it
          bound,   \* Doc -> its bytes
          signed   \* Doc -> the bytes its signature is on

Init ==
  /\ phase = [d \in Doc |-> "draft"]
  /\ before = [d \in Doc |-> {}]
  /\ bound = [d \in Doc |-> None]
  /\ signed = [d \in Doc |-> None]

\* In any order: before' is whatever it says for the documents of S.
Issue(S, info) ==
  /\ \A d \in S : phase[d] = "draft"
  /\ phase' = [d \in Doc |-> IF d \notin S THEN phase[d] ELSE IF d \in info THEN "info" ELSE "open"]
  /\ before' \in [Doc -> SUBSET Doc]
  /\ \A d \in Doc : IF d \in S THEN d \notin before'[d] ELSE before'[d] = before[d]
  /\ UNCHANGED <<bound, signed>>

\* An issued document is rendered, once.
Bind(d, b) ==
  /\ phase[d] # "draft"
  /\ bound[d] = None
  /\ bound' = [bound EXCEPT ![d] = b]
  /\ UNCHANGED <<phase, before, signed>>

Turn(d) == \A e \in before[d] : phase[e] # "open"

Answer(d) ==
  /\ phase[d] = "open" /\ Turn(d)
  /\ phase' = [phase EXCEPT ![d] = "answered"]
  /\ UNCHANGED <<before, bound, signed>>

Sign(d) ==
  /\ phase[d] = "open" /\ Turn(d)
  /\ bound[d] # None
  /\ phase' = [phase EXCEPT ![d] = "answered"]
  /\ signed' = [signed EXCEPT ![d] = bound[d]]
  /\ UNCHANGED <<before, bound>>

Withdraw(d) ==
  /\ phase[d] \in {"draft", "open", "info"}
  /\ phase' = [phase EXCEPT ![d] = "withdrawn"]
  /\ UNCHANGED <<before, bound, signed>>

Next ==
  \/ \E S, info \in SUBSET Doc : Issue(S, info)
  \/ \E d \in Doc : Answer(d) \/ Sign(d) \/ Withdraw(d) \/ \E b \in Bytes : Bind(d, b)

Spec == Init /\ [][Next]_<<phase, before, bound, signed>>
=============================================================================
