------------------------- MODULE PersonAccessProofs -------------------------
(***************************************************************************)
(* Proofs about PersonAccess for any persons, users, roles, overlapping    *)
(* calls and sweeps.  Every invariant is inductive beside TInv, which adds *)
(* to the types what a call has checked for good: a merge is of two        *)
(* persons, a reversal is of a merge there is.                             *)
(***************************************************************************)
EXTENDS PersonAccess, FiniteSetTheorems, SequenceTheorems, TLAPS

CallsOK ==
  \A c \in Call :
    /\ call[c].op = "merge" => call[c].survivor # call[c].loser
    /\ call[c].op = "unmerge" => call[c].merge \in DOMAIN merges

TInv == TypeOK /\ CallsOK

LEMMA PendingFacts ==
  ASSUME NEW x \in Pending
  PROVE  /\ x.op = "merge" => x.survivor \in Person /\ x.loser \in Person
         /\ x.op = "unmerge" => x.merge \in 1 .. MaxCalls
         /\ x.op \in {"reengage", "extend", "convert", "grant", "attach"} => x.person \in Person
         /\ x.op = "grant" => x.role \in Role
         /\ x.op = "attach" => x.user \in User
BY DEF Pending, Idle

LEMMA MergeFacts ==
  ASSUME merges \in Seq(Merge), NEW m \in DOMAIN merges
  PROVE  /\ merges[m].loser \in Person /\ merges[m].survivor \in Person
         /\ merges[m].moved \subseteq User /\ merges[m].revoked \subseteq Role
<1>1. merges[m] \in Merge
  OBVIOUS
<1>2. QED
  BY <1>1 DEF Merge

\* The reversal of a merge changes its stamp and nothing else of the journal of merges.
LEMMA ReversedFacts ==
  ASSUME merges \in Seq(Merge), NEW m \in DOMAIN merges,
         merges' = [merges EXCEPT ![m] = [@ EXCEPT !.reversed = TRUE]]
  PROVE  /\ merges' \in Seq(Merge) /\ Len(merges') = Len(merges)
         /\ DOMAIN merges' = DOMAIN merges
         /\ \A n \in DOMAIN merges :
              /\ merges'[n].loser = merges[n].loser
              /\ merges'[n].survivor = merges[n].survivor
              /\ merges'[n].moved = merges[n].moved
              /\ merges'[n].reversed <=> (merges[n].reversed \/ n = m)
<1> DEFINE new == [merges[m] EXCEPT !.reversed = TRUE]
<1>1. merges[m] \in Merge
  OBVIOUS
<1>2. new \in Merge
  BY <1>1 DEF Merge
<1>3. merges' = [merges EXCEPT ![m] = new]
  OBVIOUS
<1>4. /\ new.loser = merges[m].loser /\ new.survivor = merges[m].survivor
      /\ new.moved = merges[m].moved /\ new.reversed
  BY <1>1 DEF Merge
<1> HIDE DEF new
<1>5. merges' \in Seq(Merge) /\ Len(merges') = Len(merges) /\ DOMAIN merges' = DOMAIN merges
  <2>1. m \in 1 .. Len(merges)
    OBVIOUS
  <2>2. [merges EXCEPT ![m] = new] \in Seq(Merge)
    BY <1>2, <2>1, ExceptSeq
  <2>3. Len([merges EXCEPT ![m] = new]) = Len(merges)
    BY <1>2, <2>1, ExceptSeq
  <2>4. DOMAIN [merges EXCEPT ![m] = new] = DOMAIN merges
    OBVIOUS
  <2>5. QED
    BY <1>3, <2>2, <2>3, <2>4
<1>6. ASSUME NEW n \in DOMAIN merges
      PROVE  /\ merges'[n].loser = merges[n].loser
             /\ merges'[n].survivor = merges[n].survivor
             /\ merges'[n].moved = merges[n].moved
             /\ merges'[n].reversed <=> (merges[n].reversed \/ n = m)
  <2>1. CASE n = m
    <3>1. merges'[n] = new
      BY <1>3, <2>1
    <3>2. QED
      BY <3>1, <1>4, <2>1
  <2>2. CASE n # m
    <3>1. merges'[n] = merges[n]
      BY <1>3, <2>2
    <3>2. QED
      BY <3>1, <2>2
  <2>3. QED
    BY <2>1, <2>2
<1>7. QED
  BY <1>5, <1>6

\* A new merge is the last one, and stands.
LEMMA AppendedFacts ==
  ASSUME merges \in Seq(Merge), NEW e \in Merge, merges' = Append(merges, e)
  PROVE  /\ merges' \in Seq(Merge) /\ Len(merges') = Len(merges) + 1
         /\ DOMAIN merges = 1 .. Len(merges)
         /\ DOMAIN merges' = DOMAIN merges \cup {Len(merges) + 1}
         /\ merges'[Len(merges) + 1] = e
         /\ \A n \in DOMAIN merges : merges'[n] = merges[n]
OBVIOUS

\* A call that was idle has now passed its checks.
LEMMA AskKeeps ==
  ASSUME TInv, NEW c \in Call, NEW what \in Pending, Ask(c, what),
         what.op = "merge" => what.survivor # what.loser,
         what.op = "unmerge" => what.merge \in DOMAIN merges
  PROVE  TInv'
<1>1. call' \in [Call -> Pending] /\ calls' \in 0 .. MaxCalls
  BY PersonAssumption DEF Ask, TInv, TypeOK
<1>2. TypeOK'
  BY <1>1 DEF Ask, people, logins, history, TInv, TypeOK
<1>3. CallsOK'
  BY DEF Ask, TInv, TypeOK, CallsOK
<1>4. QED
  BY <1>2, <1>3 DEF TInv

LEMMA AskNextKeeps ==
  ASSUME TInv, NEW c \in Call,
         \/ \E s, l \in Person : AskMerge(c, s, l)
         \/ \E m \in 1 .. MaxCalls : AskUnmerge(c, m)
         \/ \E p \in Person : AskReengage(c, p) \/ AskOfExternal(c, p)
         \/ \E p \in Person, r \in Role : AskGrant(c, p, r)
         \/ \E u \in User, p \in Person : AskAttach(c, u, p)
  PROVE  TInv' /\ \E what \in Pending : Ask(c, what)
<1>1. ASSUME NEW s \in Person, NEW l \in Person, AskMerge(c, s, l)
      PROVE  TInv' /\ \E what \in Pending : Ask(c, what)
  <2> DEFINE what == [op |-> "merge", survivor |-> s, loser |-> l]
  <2>1. what \in Pending /\ what.op = "merge" /\ what.survivor = s /\ what.loser = l
    BY DEF Pending
  <2>2. Ask(c, what) /\ s # l
    BY <1>1 DEF AskMerge
  <2> HIDE DEF what
  <2>3. QED
    BY <2>1, <2>2, AskKeeps
<1>2. ASSUME NEW m \in 1 .. MaxCalls, AskUnmerge(c, m)
      PROVE  TInv' /\ \E what \in Pending : Ask(c, what)
  <2> DEFINE what == [op |-> "unmerge", merge |-> m]
  <2>1. what \in Pending /\ what.op = "unmerge" /\ what.merge = m
    BY DEF Pending
  <2>2. Ask(c, what) /\ m \in DOMAIN merges
    BY <1>2 DEF AskUnmerge
  <2> HIDE DEF what
  <2>3. QED
    BY <2>1, <2>2, AskKeeps
<1>3. ASSUME NEW what \in Pending, Ask(c, what), what.op \notin {"merge", "unmerge"}
      PROVE  TInv' /\ \E w \in Pending : Ask(c, w)
  BY <1>3, AskKeeps
<1>4. ASSUME NEW p \in Person, AskReengage(c, p) \/ AskOfExternal(c, p)
      PROVE  TInv' /\ \E what \in Pending : Ask(c, what)
  <2>1. PICK o \in {"reengage", "extend", "convert"} : Ask(c, [op |-> o, person |-> p])
    BY <1>4 DEF AskReengage, AskOfExternal
  <2>2. [op |-> o, person |-> p] \in Pending
    BY DEF Pending
  <2>3. QED
    BY <2>1, <2>2, <1>3
<1>5. ASSUME NEW p \in Person, NEW r \in Role, AskGrant(c, p, r)
      PROVE  TInv' /\ \E what \in Pending : Ask(c, what)
  <2>1. [op |-> "grant", person |-> p, role |-> r] \in Pending
    BY DEF Pending
  <2>2. QED
    BY <2>1, <1>3, <1>5 DEF AskGrant
<1>6. ASSUME NEW u \in User, NEW p \in Person, AskAttach(c, u, p)
      PROVE  TInv' /\ \E what \in Pending : Ask(c, what)
  <2>1. [op |-> "attach", person |-> p, user |-> u] \in Pending
    BY DEF Pending
  <2>2. QED
    BY <2>1, <1>3, <1>6 DEF AskAttach
<1>7. QED
  BY <1>1, <1>2, <1>4, <1>5, <1>6

\* A call that is over leaves the others as they were.
LEMMA DoneKeeps ==
  ASSUME TInv, NEW c \in Call, Done(c), DOMAIN merges \subseteq DOMAIN merges'
  PROVE  call' \in [Call -> Pending] /\ CallsOK'
<1>1. Idle \in Pending /\ Idle.op = "idle"
  BY DEF Pending, Idle
<1>2. QED
  BY <1>1 DEF Done, TInv, TypeOK, CallsOK

LEMMA MergeKeeps ==
  ASSUME TInv, NEW c \in Call, CommitMerge(c)
  PROVE  TInv'
<1> DEFINE s == call[c].survivor
           l == call[c].loser
           e == [loser |-> l, survivor |-> s, moved |-> UsersOf(l),
                 revoked |-> roles[l], reversed |-> FALSE]
<1>1. s \in Person /\ l \in Person
  BY PendingFacts DEF TInv, TypeOK, CommitMerge
<1>2. e \in Merge /\ merges' = Append(merges, e) /\ merges \in Seq(Merge)
  BY <1>1 DEF Merge, UsersOf, TInv, TypeOK, CommitMerge
<1> HIDE DEF e
<1>3. merges' \in Seq(Merge) /\ DOMAIN merges \subseteq DOMAIN merges'
  BY <1>2, AppendedFacts
<1>4. call' \in [Call -> Pending] /\ CallsOK'
  BY <1>3, DoneKeeps DEF CommitMerge
<1>5. TypeOK'
  BY <1>1, <1>3, <1>4 DEF CommitMerge, UsersOf, TInv, TypeOK
<1>6. QED
  BY <1>4, <1>5 DEF TInv

LEMMA UnmergeKeeps ==
  ASSUME TInv, NEW c \in Call, CommitUnmerge(c)
  PROVE  TInv'
<1> DEFINE m == call[c].merge
           l == merges[m].loser
<1>1. m \in DOMAIN merges /\ merges \in Seq(Merge)
  BY DEF CommitUnmerge, TInv, TypeOK, CallsOK
<1>2. l \in Person /\ merges[m].moved \subseteq User /\ merges[m].revoked \subseteq Role
  BY <1>1, MergeFacts
<1>3. merges' \in Seq(Merge) /\ DOMAIN merges' = DOMAIN merges
  BY <1>1, ReversedFacts DEF CommitUnmerge
<1>4. call' \in [Call -> Pending] /\ CallsOK'
  BY <1>3, DoneKeeps DEF CommitUnmerge
<1>5. /\ at' \in [User -> Person \cup {Nobody}] /\ roles' \in [Person -> SUBSET Role]
      /\ status' \in [Person -> {"active", "inactive", "superseded"}]
      /\ strayed' \subseteq User /\ revived' \subseteq Person
  <2>2. at' \in [User -> Person \cup {Nobody}]
    BY <1>2 DEF CommitUnmerge, TInv, TypeOK
  <2>3. roles' \in [Person -> SUBSET Role]
    BY <1>2 DEF CommitUnmerge, TInv, TypeOK
  <2>4. QED
    BY <1>2, <2>2, <2>3 DEF CommitUnmerge, TInv, TypeOK
<1>6. TypeOK'
  BY <1>3, <1>4, <1>5 DEF CommitUnmerge, TInv, TypeOK
<1>7. QED
  BY <1>4, <1>6 DEF TInv

LEMMA OtherCallsKeep ==
  ASSUME TInv, NEW c \in Call,
         CommitReengage(c) \/ CommitExtend(c) \/ CommitConvert(c) \/ CommitGrant(c)
           \/ CommitAttach(c) \/ GiveUp(c)
  PROVE  TInv'
<1>1. call' \in [Call -> Pending] /\ CallsOK'
  BY DoneKeeps DEF CommitReengage, CommitExtend, CommitConvert, CommitGrant, CommitAttach, GiveUp
<1>2. CASE CommitReengage(c)
  <2>1. call[c].person \in Person
    BY <1>2, PendingFacts DEF CommitReengage, TInv, TypeOK
  <2>2. QED
    BY <1>1, <1>2, <2>1 DEF CommitReengage, MayExpire, TInv, TypeOK
<1>3. CASE CommitExtend(c)
  BY <1>1, <1>3 DEF CommitExtend, MayExpire, logins, history, TInv, TypeOK
<1>4. CASE CommitConvert(c)
  BY <1>1, <1>4 DEF CommitConvert, logins, history, TInv, TypeOK
<1>5. CASE CommitGrant(c)
  <2>1. call[c].person \in Person /\ call[c].role \in Role
    BY <1>5, PendingFacts DEF CommitGrant, TInv, TypeOK
  <2>2. QED
    BY <1>1, <1>5, <2>1 DEF CommitGrant, Given, people, logins, TInv, TypeOK
<1>6. CASE CommitAttach(c)
  <2>1. call[c].person \in Person /\ call[c].user \in User
    BY <1>6, PendingFacts DEF CommitAttach, TInv, TypeOK
  <2>2. QED
    BY <1>1, <1>6, <2>1 DEF CommitAttach, Assign, Given, people, TInv, TypeOK
<1>7. CASE GiveUp(c)
  BY <1>1, <1>7 DEF GiveUp, people, logins, history, TInv, TypeOK
<1>8. QED
  BY <1>2, <1>3, <1>4, <1>5, <1>6, <1>7

LEMMA OneStepsKeep ==
  ASSUME TInv,
         \/ \E u \in User, p \in Person : Invite(u, p)
         \/ \E p \in Person, r \in Role : Revoke(p, r)
         \/ \E p \in Person : Lapse(p)
         \/ \E w \in Worker : SweepRead(w) \/ SweepDies(w) \/ (\E p \in Person : SweepOne(w, p))
         \/ UNCHANGED vars
  PROVE  TInv'
<1>1. CallsOK'
  BY DEF Invite, Revoke, Lapse, SweepRead, SweepDies, SweepOne, vars, TInv, CallsOK
<1>2. ASSUME NEW u \in User, NEW p \in Person, Invite(u, p)
      PROVE  TypeOK'
  BY <1>2, PersonAssumption DEF Invite, Assign, Given, people, TInv, TypeOK
<1>3. ASSUME NEW p \in Person, NEW r \in Role, Revoke(p, r)
      PROVE  TypeOK'
  BY <1>3, PersonAssumption DEF Revoke, people, logins, history, TInv, TypeOK
<1>4. ASSUME NEW p \in Person, Lapse(p)
      PROVE  TypeOK'
  BY <1>4 DEF Lapse, logins, history, TInv, TypeOK
<1>5. ASSUME NEW w \in Worker, SweepRead(w)
      PROVE  TypeOK'
  BY <1>5 DEF SweepRead, people, logins, history, TInv, TypeOK
<1>6. ASSUME NEW w \in Worker, SweepDies(w)
      PROVE  TypeOK'
  BY <1>6, PersonAssumption DEF SweepDies, people, logins, history, TInv, TypeOK
<1>7. ASSUME NEW w \in Worker, NEW p \in Person, SweepOne(w, p)
      PROVE  TypeOK'
  <2>1. due' \in [Worker -> SUBSET Person]
    BY <1>7 DEF SweepOne, TInv, TypeOK
  <2>2. CASE StillActive(p)
    BY <1>7, <2>1, <2>2 DEF SweepOne, UsersOf, Left, TInv, TypeOK
  <2>3. CASE ~StillActive(p)
    BY <1>7, <2>1, <2>3 DEF SweepOne, TInv, TypeOK
  <2>4. QED
    BY <2>2, <2>3
<1>8. ASSUME UNCHANGED vars
      PROVE  TypeOK'
  BY <1>8 DEF vars, people, logins, history, TInv, TypeOK
<1>9. QED
  BY <1>1, <1>2, <1>3, <1>4, <1>5, <1>6, <1>7, <1>8 DEF TInv

LEMMA TStep ==
  ASSUME TInv, [Next]_vars
  PROVE  TInv'
<1>1. ASSUME NEW c \in Call, Commit(c)
      PROVE  TInv'
  BY <1>1, MergeKeeps, UnmergeKeeps, OtherCallsKeep DEF Commit
<1>2. QED
  BY <1>1, AskNextKeeps, OtherCallsKeep, OneStepsKeep DEF Next

LEMMA TInit == Init => TInv
<1> SUFFICES ASSUME Init PROVE TInv
  OBVIOUS
<1>1. Idle \in Pending /\ Idle.op = "idle"
  BY DEF Pending, Idle
<1>2. CallsOK
  BY <1>1 DEF Init, CallsOK
<1>3. TypeOK
  BY <1>1, PersonAssumption DEF Init, TypeOK
<1>4. QED
  BY <1>2, <1>3 DEF TInv

LEMMA AlwaysTInv == Spec => []TInv
  BY TInit, TStep, PTL DEF Spec

(* In every reachable state persons, logins, roles, merges, calls and sweeps *)
(* are well typed, and only an external has an access-expiry date.           *)
THEOREM TypeCorrect == Spec => []TypeOK
<1>1. TInv => TypeOK
  BY DEF TInv
<1>2. QED
  BY <1>1, AlwaysTInv, PTL

\* What an ended person holds, one person at a time.
Ended(p) ==
  Lacking(p) => roles[p] \subseteq since[p] /\ UsersOf(p) \ banned \subseteq since[p]

\* A person that stays as it was, and whose roles and users shrink or are counted, stays ended.
LEMMA EndedKept ==
  ASSUME NEW p \in Person, Ended(p), status'[p] = status[p], since[p] \subseteq since'[p],
         roles'[p] \subseteq roles[p] \cup since'[p],
         UsersOf(p)' \ banned' \subseteq (UsersOf(p) \ banned) \cup since'[p]
  PROVE  Ended(p)'
BY DEF Ended, Lacking

LEMMA EndedStep ==
  ASSUME TInv, \A p \in Person : Ended(p), [Next]_vars, NEW q \in Person
  PROVE  Ended(q)'
<1>1. ASSUME UNCHANGED <<status, roles, since, at, banned>>
      PROVE  Ended(q)'
  BY <1>1 DEF Ended, Lacking, UsersOf
<1>2. ASSUME NEW c \in Call, CommitMerge(c)
      PROVE  Ended(q)'
  <2> DEFINE s == call[c].survivor
             l == call[c].loser
  <2>1. s \in Person /\ l \in Person /\ s # l
    BY <1>2, PendingFacts DEF CommitMerge, TInv, TypeOK, CallsOK
  <2>2. CASE q = l
    BY <1>2, <2>1, <2>2 DEF CommitMerge, Ended, Lacking, UsersOf, TInv, TypeOK
  <2>3. CASE q = s
    <3>1. /\ status'[q] = status[q] /\ roles'[q] = roles[q]
          /\ since'[q] = since[q] \cup UsersOf(l)
      BY <1>2, <2>1, <2>3 DEF CommitMerge, TInv, TypeOK
    <3>2. UsersOf(q)' \ banned' \subseteq (UsersOf(q) \ banned) \cup since'[q]
      BY <1>2, <2>1, <2>3, <3>1 DEF CommitMerge, UsersOf, TInv, TypeOK
    <3>3. QED
      BY <3>1, <3>2, EndedKept
  <2>4. CASE q \notin {s, l}
    BY <1>2, <2>1, <2>4 DEF CommitMerge, Ended, Lacking, UsersOf, TInv, TypeOK
  <2>5. QED
    BY <2>2, <2>3, <2>4
<1>3. ASSUME NEW c \in Call, CommitUnmerge(c)
      PROVE  Ended(q)'
  <2> DEFINE m == call[c].merge
             l == merges[m].loser
  <2>1. l \in Person
    BY <1>3, MergeFacts DEF CommitUnmerge, TInv, TypeOK, CallsOK
  <2>2. CASE q = l
    BY <1>3, <2>1, <2>2 DEF CommitUnmerge, Ended, Lacking, TInv, TypeOK
  <2>3. CASE q # l
    BY <1>3, <2>1, <2>3 DEF CommitUnmerge, Ended, Lacking, UsersOf, TInv, TypeOK
  <2>4. QED
    BY <2>2, <2>3
<1>4. ASSUME NEW c \in Call, CommitReengage(c)
      PROVE  Ended(q)'
  BY <1>4 DEF CommitReengage, Ended, Lacking, UsersOf, TInv, TypeOK
<1>5. ASSUME NEW c \in Call, CommitGrant(c)
      PROVE  Ended(q)'
  BY <1>5 DEF CommitGrant, Given, people, logins, Ended, Lacking, UsersOf, TInv, TypeOK
<1>6. ASSUME NEW u \in User, NEW p \in Person, Assign(u, p), UNCHANGED <<people, banned, roles>>
      PROVE  Ended(q)'
  <2>1. CASE q # p
    BY <1>6, <2>1 DEF Assign, Given, people, Ended, Lacking, UsersOf, TInv, TypeOK
  <2>2. CASE q = p
    BY <1>6, <2>2 DEF Assign, Given, people, Ended, Lacking, UsersOf, TInv, TypeOK
  <2>3. QED
    BY <2>1, <2>2
<1>7. ASSUME NEW p \in Person, NEW r \in Role, Revoke(p, r)
      PROVE  Ended(q)'
  BY <1>7 DEF Revoke, people, logins, history, Ended, Lacking, UsersOf, TInv, TypeOK
<1>8. ASSUME NEW w \in Worker, NEW p \in Person, SweepOne(w, p)
      PROVE  Ended(q)'
  <2>1. CASE StillActive(p) /\ q = p
    BY <1>8, <2>1 DEF SweepOne, Left, Ended, Lacking, UsersOf, TInv, TypeOK
  <2>2. CASE ~(StillActive(p) /\ q = p)
    BY <1>8, <2>2 DEF SweepOne, Left, Ended, Lacking, UsersOf, TInv, TypeOK
  <2>3. QED
    BY <2>1, <2>2
<1>9. ASSUME NEW c \in Call, Commit(c)
      PROVE  Ended(q)'
  <2>1. CASE CommitExtend(c) \/ CommitConvert(c)
    BY <1>1, <2>1 DEF CommitExtend, CommitConvert, logins, history
  <2>2. CASE CommitAttach(c)
    <3>1. call[c].person \in Person /\ call[c].user \in User
      BY <2>2, PendingFacts DEF CommitAttach, TInv, TypeOK
    <3>2. QED
      BY <1>6, <2>2, <3>1 DEF CommitAttach
  <2>3. QED
    BY <1>2, <1>3, <1>4, <1>5, <1>9, <2>1, <2>2 DEF Commit
<1>10. ASSUME NEW c \in Call, NEW what \in Pending, Ask(c, what)
       PROVE  Ended(q)'
  BY <1>1, <1>10 DEF Ask, people, logins, history
<1>11. ASSUME NEW c \in Call, GiveUp(c)
       PROVE  Ended(q)'
  BY <1>1, <1>11 DEF GiveUp, people, logins, history
<1>12. ASSUME NEW u \in User, NEW p \in Person, Invite(u, p)
       PROVE  Ended(q)'
  BY <1>6, <1>12 DEF Invite
<1>13. ASSUME \/ \E p \in Person : Lapse(p)
              \/ \E w \in Worker : SweepRead(w) \/ SweepDies(w)
              \/ UNCHANGED vars
       PROVE  Ended(q)'
  BY <1>1, <1>13 DEF Lapse, SweepRead, SweepDies, vars, people, logins, history
<1>14. QED
  BY <1>7, <1>8, <1>9, <1>10, <1>11, <1>12, <1>13, AskNextKeeps DEF Next

(* Whoever loses access by the sweep or by a merge holds afterwards nothing  *)
(* but what is given later, whatever calls were under way (disableSignIn,    *)
(* revokeAllGrantsForPerson and the status in one transaction).              *)
THEOREM AlwaysEnded == Spec => []EndedStaysEnded
<1>1. (\A p \in Person : Ended(p)) <=> EndedStaysEnded
  BY DEF Ended, EndedStaysEnded
<1>2. Init => \A p \in Person : Ended(p)
  BY DEF Init, Ended, Lacking
<1>3. TInv /\ (\A p \in Person : Ended(p)) /\ [Next]_vars => (\A p \in Person : Ended(p))'
  BY EndedStep
<1>4. QED
  BY <1>1, <1>2, <1>3, AlwaysTInv, PTL DEF Spec

\* A person is given away by at most one merge that stands, and by one if superseded.
GivenAway(p) ==
  /\ \A m, n \in LiveMerges(p) : m = n
  /\ status[p] = "superseded" => LiveMerges(p) # {}
  /\ LiveMerges(p) # {} => status[p] = "superseded" \/ p \in revived

LEMMA LiveAfterMerge ==
  ASSUME TInv, NEW c \in Call, CommitMerge(c), NEW p \in Person
  PROVE  LiveMerges(p)' = IF p = call[c].loser THEN {Len(merges) + 1} ELSE LiveMerges(p)
<1> DEFINE l == call[c].loser
           e == [loser |-> l, survivor |-> call[c].survivor, moved |-> UsersOf(l),
                 revoked |-> roles[l], reversed |-> FALSE]
<1>1. e \in Merge /\ merges' = Append(merges, e) /\ merges \in Seq(Merge)
  BY PendingFacts DEF Merge, UsersOf, TInv, TypeOK, CommitMerge
<1>2. e.loser = l /\ ~e.reversed /\ LiveMerges(l) = {}
  BY DEF CommitMerge
<1> HIDE DEF e
<1>3. QED
  BY <1>1, <1>2, AppendedFacts DEF LiveMerges

LEMMA LiveAfterUnmerge ==
  ASSUME TInv, NEW c \in Call, CommitUnmerge(c), NEW p \in Person
  PROVE  LiveMerges(p)' = LiveMerges(p) \ {call[c].merge}
<1> DEFINE m == call[c].merge
<1>1. m \in DOMAIN merges /\ merges \in Seq(Merge)
  BY DEF CommitUnmerge, TInv, TypeOK, CallsOK
<1>2. merges' = [merges EXCEPT ![m] = [@ EXCEPT !.reversed = TRUE]]
  BY DEF CommitUnmerge
<1> HIDE DEF m
<1>3. QED
  BY <1>1, <1>2, ReversedFacts DEF LiveMerges, m

LEMMA GivenAwayStep ==
  ASSUME TInv, \A p \in Person : GivenAway(p), [Next]_vars, NEW q \in Person
  PROVE  GivenAway(q)'
<1>1. ASSUME UNCHANGED <<status, merges, revived>>
      PROVE  GivenAway(q)'
  BY <1>1 DEF GivenAway, LiveMerges
<1>2. ASSUME NEW c \in Call, CommitMerge(c)
      PROVE  GivenAway(q)'
  <2>1. CASE q = call[c].loser
    <3>1. LiveMerges(q)' = {Len(merges) + 1}
      BY <1>2, <2>1, LiveAfterMerge
    <3>2. status'[q] = "superseded"
      BY <1>2, <2>1 DEF CommitMerge, TInv, TypeOK
    <3>3. QED
      BY <3>1, <3>2 DEF GivenAway
  <2>2. CASE q # call[c].loser
    <3>1. LiveMerges(q)' = LiveMerges(q)
      BY <1>2, <2>2, LiveAfterMerge
    <3>2. status'[q] = status[q] /\ revived' = revived
      BY <1>2, <2>2 DEF CommitMerge, TInv, TypeOK
    <3>3. QED
      BY <3>1, <3>2 DEF GivenAway
  <2>3. QED
    BY <2>1, <2>2
<1>3. ASSUME NEW c \in Call, CommitUnmerge(c)
      PROVE  GivenAway(q)'
  <2> DEFINE m == call[c].merge
             l == merges[m].loser
  <2>1. LiveMerges(q)' = LiveMerges(q) \ {m}
    BY <1>3, LiveAfterUnmerge
  <2>2. m \in DOMAIN merges /\ ~merges[m].reversed
    BY <1>3 DEF CommitUnmerge, TInv, CallsOK
  <2>3. CASE q = l
    <3>1. m \in LiveMerges(q)
      BY <2>2, <2>3 DEF LiveMerges
    <3>2. LiveMerges(q)' = {}
      BY <2>1, <3>1 DEF GivenAway
    <3>3. status'[q] = "active"
      BY <1>3, <2>3 DEF CommitUnmerge, TInv, TypeOK
    <3>4. QED
      BY <3>2, <3>3 DEF GivenAway
  <2>4. CASE q # l
    <3>1. m \notin LiveMerges(q)
      BY <2>4 DEF LiveMerges
    <3>2. status'[q] = status[q] /\ (q \in revived => q \in revived')
      BY <1>3, <2>4 DEF CommitUnmerge, TInv, TypeOK
    <3>3. LiveMerges(q)' = LiveMerges(q)
      BY <2>1, <3>1
    <3>4. QED
      BY <3>2, <3>3 DEF GivenAway
  <2>5. QED
    BY <2>3, <2>4
<1>4. ASSUME NEW c \in Call, CommitReengage(c)
      PROVE  GivenAway(q)'
  <2>1. LiveMerges(q)' = LiveMerges(q)
    BY <1>4 DEF CommitReengage, LiveMerges
  <2>2. CASE q = call[c].person
    <3>1. status'[q] = "active" /\ (status[q] = "superseded" \/ q \in revived => q \in revived')
      BY <1>4, <2>2 DEF CommitReengage, TInv, TypeOK
    <3>2. QED
      BY <2>1, <3>1 DEF GivenAway
  <2>3. CASE q # call[c].person
    <3>1. status'[q] = status[q] /\ (q \in revived => q \in revived')
      BY <1>4, <2>3 DEF CommitReengage, TInv, TypeOK
    <3>2. QED
      BY <2>1, <3>1 DEF GivenAway
  <2>4. QED
    BY <2>2, <2>3
<1>5. ASSUME NEW w \in Worker, NEW p \in Person, SweepOne(w, p)
      PROVE  GivenAway(q)'
  <2>1. LiveMerges(q)' = LiveMerges(q) /\ revived' = revived
    BY <1>5 DEF SweepOne, LiveMerges
  <2>2. \/ status'[q] = status[q]
        \/ status[q] = "active" /\ status'[q] = "inactive"
    BY <1>5 DEF SweepOne, StillActive, TInv, TypeOK
  <2>3. QED
    BY <2>1, <2>2 DEF GivenAway
<1>6. ASSUME NEW c \in Call, Commit(c)
      PROVE  GivenAway(q)'
  <2>1. CASE CommitExtend(c) \/ CommitConvert(c) \/ CommitGrant(c) \/ CommitAttach(c)
    BY <1>1, <2>1 DEF CommitExtend, CommitConvert, CommitGrant, CommitAttach, people, history
  <2>2. QED
    BY <1>2, <1>3, <1>4, <1>6, <2>1 DEF Commit
<1>7. ASSUME \/ \E c \in Call : GiveUp(c) \/ (\E what \in Pending : Ask(c, what))
             \/ \E u \in User, p \in Person : Invite(u, p)
             \/ \E p \in Person, r \in Role : Revoke(p, r)
             \/ \E p \in Person : Lapse(p)
             \/ \E w \in Worker : SweepRead(w) \/ SweepDies(w)
             \/ UNCHANGED vars
      PROVE  GivenAway(q)'
  BY <1>1, <1>7 DEF GiveUp, Ask, Invite, Revoke, Lapse, SweepRead, SweepDies, vars, people, history
<1>8. QED
  BY <1>5, <1>6, <1>7, AskNextKeeps DEF Next

(* However merges, reversals and re-engagements overlap, a superseded person *)
(* is superseded by exactly one merge that stands (person_merge_active_uq),  *)
(* and only a stale re-engagement brings the loser of one back.              *)
THEOREM AlwaysByOneMerge == Spec => []SupersededByOneMerge
<1>1. (\A p \in Person : GivenAway(p)) => SupersededByOneMerge
  <2> SUFFICES ASSUME NEW p \in Person, GivenAway(p)
               PROVE  /\ status[p] = "superseded" => Cardinality(LiveMerges(p)) = 1
                      /\ LiveMerges(p) # {} => status[p] = "superseded" \/ p \in revived
    BY DEF SupersededByOneMerge
  <2>1. ASSUME status[p] = "superseded"
        PROVE  Cardinality(LiveMerges(p)) = 1
    <3>1. PICK m \in LiveMerges(p) : TRUE
      BY <2>1 DEF GivenAway
    <3>2. LiveMerges(p) = {m}
      BY DEF GivenAway
    <3>3. QED
      BY <3>2, FS_Singleton
  <2>2. QED
    BY <2>1 DEF GivenAway
<1>2. Init => \A p \in Person : GivenAway(p)
  BY DEF Init, GivenAway, LiveMerges
<1>3. TInv /\ (\A p \in Person : GivenAway(p)) /\ [Next]_vars => (\A p \in Person : GivenAway(p))'
  BY GivenAwayStep
<1>4. QED
  BY <1>1, <1>2, <1>3, AlwaysTInv, PTL DEF Spec

\* The merges that moved a user lead from its home to where it is, unless it strayed.
Unwinds(u) ==
  u \notin strayed =>
    \A p \in Person \cup {Nobody}, n \in Nat :
      \/ n \in Carrying(u) /\ merges[n].loser = p
      \/ n = Len(merges) + 1 /\ at[u] = p
      => CameFrom(u, n, p)

LEMMA CarryingFacts ==
  ASSUME merges \in Seq(Merge), NEW u \in User
  PROVE  Carrying(u) \subseteq 1 .. Len(merges) /\ Len(merges) \in Nat
BY DEF Carrying

LEMMA CameFromKept ==
  ASSUME NEW u \in User, NEW m, NEW n, NEW p, CameFrom(u, m, p),
         { k \in Carrying(u)' : k < n } = { k \in Carrying(u) : k < m },
         home'[u] = home[u],
         \A k \in Carrying(u) : merges'[k].survivor = merges[k].survivor
  PROVE  CameFrom(u, n, p)'
<1> DEFINE earlier == { k \in Carrying(u) : k < m }
<1>1. CASE earlier = {} /\ p = home[u]
  BY <1>1 DEF CameFrom
<1>2. ASSUME NEW k \in earlier, earlier \subseteq 1 .. k, p = merges[k].survivor
      PROVE  CameFrom(u, n, p)'
  BY <1>2 DEF CameFrom
<1>3. QED
  BY <1>1, <1>2 DEF CameFrom

LEMMA UnwindsKept ==
  ASSUME TInv, NEW u \in User, Unwinds(u), UNCHANGED <<at, home, strayed, merges>>
  PROVE  Unwinds(u)'
BY DEF Unwinds, CameFrom, Carrying

LEMMA UnwindsMerge ==
  ASSUME TInv, NEW u \in User, Unwinds(u), NEW c \in Call, CommitMerge(c)
  PROVE  Unwinds(u)'
<1> DEFINE l == call[c].loser
           s == call[c].survivor
           e == [loser |-> l, survivor |-> s, moved |-> UsersOf(l),
                 revoked |-> roles[l], reversed |-> FALSE]
           last == Len(merges) + 1
<1>1. e \in Merge /\ merges' = Append(merges, e) /\ merges \in Seq(Merge)
  BY PendingFacts DEF Merge, UsersOf, TInv, TypeOK, CommitMerge
<1>2. e.loser = l /\ e.survivor = s /\ e.moved = UsersOf(l) /\ ~e.reversed
  OBVIOUS
<1>3. home' = home /\ strayed' = strayed /\ at'[u] = IF at[u] = l THEN s ELSE at[u]
  BY DEF CommitMerge, UsersOf, TInv, TypeOK
<1> HIDE DEF e
<1>4. /\ merges'[last] = e /\ Len(merges') = last /\ last \in Nat
      /\ \A n \in 1 .. Len(merges) : merges'[n] = merges[n]
  BY <1>1, AppendedFacts
<1>5. Carrying(u)' = IF at[u] = l THEN Carrying(u) \cup {last} ELSE Carrying(u)
  BY <1>1, <1>2, AppendedFacts DEF Carrying, UsersOf
<1>6. Carrying(u) \subseteq 1 .. Len(merges) /\ Len(merges) \in Nat
  BY <1>1, CarryingFacts
<1> SUFFICES ASSUME u \notin strayed, NEW p \in Person \cup {Nobody}, NEW n \in Nat,
                    \/ n \in Carrying(u)' /\ merges'[n].loser = p
                    \/ n = Len(merges') + 1 /\ at'[u] = p
             PROVE  CameFrom(u, n, p)'
  BY <1>3 DEF Unwinds
<1>7. ASSUME NEW m \in Nat, CameFrom(u, m, p),
             { k \in Carrying(u)' : k < n } = { k \in Carrying(u) : k < m }
      PROVE  CameFrom(u, n, p)'
  BY <1>3, <1>4, <1>6, <1>7, CameFromKept
<1>8. CASE n \in Carrying(u)
  <2>1. merges[n].loser = p
    BY <1>4, <1>5, <1>6, <1>8
  <2>2. CameFrom(u, n, p)
    BY <1>8, <2>1 DEF Unwinds
  <2>3. { k \in Carrying(u)' : k < n } = { k \in Carrying(u) : k < n }
    BY <1>5, <1>6, <1>8
  <2>4. QED
    BY <1>7, <2>2, <2>3
<1>9. CASE n = last /\ at[u] = l
  <2>1. at[u] = p
    BY <1>2, <1>4, <1>5, <1>6, <1>9
  <2>2. CameFrom(u, last, p)
    BY <1>4, <2>1 DEF Unwinds
  <2>3. { k \in Carrying(u)' : k < n } = { k \in Carrying(u) : k < last }
    BY <1>5, <1>6, <1>9
  <2>4. QED
    BY <1>4, <1>7, <2>2, <2>3
<1>10. CASE n = last + 1 /\ at[u] = l
  <2>1. last \in { k \in Carrying(u)' : k < n }
    BY <1>4, <1>5, <1>10
  <2>2. { k \in Carrying(u)' : k < n } \subseteq 1 .. last
    BY <1>4, <1>5, <1>6, <1>10
  <2>3. p = merges'[last].survivor
    BY <1>2, <1>3, <1>4, <1>5, <1>6, <1>10
  <2>4. QED
    BY <2>1, <2>2, <2>3 DEF CameFrom
<1>11. CASE n = last + 1 /\ at[u] # l
  <2>1. at[u] = p
    BY <1>3, <1>4, <1>5, <1>6, <1>11
  <2>2. CameFrom(u, last, p)
    BY <1>4, <2>1 DEF Unwinds
  <2>3. { k \in Carrying(u)' : k < n } = { k \in Carrying(u) : k < last }
    BY <1>5, <1>6, <1>11
  <2>4. QED
    BY <1>4, <1>7, <2>2, <2>3
<1>12. QED
  BY <1>4, <1>5, <1>6, <1>8, <1>9, <1>10, <1>11

LEMMA UnwindsUnmerge ==
  ASSUME TInv, NEW u \in User, Unwinds(u), NEW c \in Call, CommitUnmerge(c)
  PROVE  Unwinds(u)'
<1> DEFINE m == call[c].merge
           l == merges[m].loser
<1>1. m \in DOMAIN merges /\ merges \in Seq(Merge)
  BY DEF CommitUnmerge, TInv, TypeOK, CallsOK
<1>2. /\ merges' = [merges EXCEPT ![m] = [@ EXCEPT !.reversed = TRUE]]
      /\ ~merges[m].reversed /\ home' = home
      /\ strayed' = strayed \cup { x \in merges[m].moved : \E n \in Carrying(x) : n > m }
      /\ at'[u] = IF u \in merges[m].moved THEN l ELSE at[u]
  BY DEF CommitUnmerge, Restored, TInv, TypeOK
<1>3. m \in Nat /\ l \in Person
  BY <1>1, MergeFacts
<1> HIDE DEF m
<1>4. /\ Len(merges') = Len(merges) /\ DOMAIN merges' = DOMAIN merges
      /\ \A n \in DOMAIN merges :
           merges'[n].loser = merges[n].loser /\ merges'[n].survivor = merges[n].survivor
  BY <1>1, <1>2, ReversedFacts
<1>5. Carrying(u)' = Carrying(u) \ {m}
  BY <1>1, <1>2, ReversedFacts DEF Carrying
<1>6. Carrying(u) \subseteq 1 .. Len(merges) /\ Len(merges) \in Nat
  BY <1>1, CarryingFacts
<1>7. u \in merges[m].moved <=> m \in Carrying(u)
  BY <1>1, <1>2 DEF Carrying
<1>8. \A k \in Carrying(u) : merges'[k].survivor = merges[k].survivor
  BY <1>1, <1>4, <1>6
<1> SUFFICES ASSUME u \notin strayed, u \notin strayed',
                    NEW p \in Person \cup {Nobody}, NEW n \in Nat,
                    \/ n \in Carrying(u)' /\ merges'[n].loser = p
                    \/ n = Len(merges') + 1 /\ at'[u] = p
             PROVE  CameFrom(u, n, p)'
  BY <1>2 DEF Unwinds
<1>9. m \in Carrying(u) => \A k \in Carrying(u) : k <= m
  BY <1>2, <1>3, <1>6, <1>7
<1>10. CASE n \in Carrying(u)'
  <2>1. n \in Carrying(u) /\ merges[n].loser = p
    BY <1>1, <1>4, <1>5, <1>6, <1>10
  <2>2. CameFrom(u, n, p)
    BY <2>1 DEF Unwinds
  <2>3. { k \in Carrying(u)' : k < n } = { k \in Carrying(u) : k < n }
    BY <1>3, <1>5, <1>6, <1>9, <2>1
  <2>4. QED
    BY <1>2, <1>8, <2>2, <2>3, CameFromKept
<1>11. CASE n = Len(merges) + 1 /\ m \in Carrying(u)
  <2>1. p = l
    BY <1>2, <1>4, <1>5, <1>6, <1>7, <1>11
  <2>2. CameFrom(u, m, p)
    BY <1>3, <1>11, <2>1 DEF Unwinds
  <2>3. { k \in Carrying(u)' : k < n } = { k \in Carrying(u) : k < m }
    BY <1>3, <1>5, <1>6, <1>9, <1>11
  <2>4. QED
    BY <1>2, <1>8, <2>2, <2>3, CameFromKept
<1>12. CASE n = Len(merges) + 1 /\ m \notin Carrying(u)
  <2>1. at[u] = p
    BY <1>2, <1>4, <1>5, <1>6, <1>7, <1>12
  <2>2. CameFrom(u, n, p)
    BY <1>12, <2>1 DEF Unwinds
  <2>3. { k \in Carrying(u)' : k < n } = { k \in Carrying(u) : k < n }
    BY <1>5, <1>12
  <2>4. QED
    BY <1>2, <1>8, <2>2, <2>3, CameFromKept
<1>13. QED
  BY <1>4, <1>10, <1>11, <1>12

LEMMA UnwindsAssign ==
  ASSUME TInv, NEW u \in User, Unwinds(u), NEW v \in User, NEW q \in Person,
         Assign(v, q), merges' = merges
  PROVE  Unwinds(u)'
<1>1. Carrying(u)' = Carrying(u)
  BY DEF Carrying
<1>2. CASE u = v
  <2>1. at'[u] = q /\ home'[u] = q /\ (u \notin strayed' => Carrying(u) = {})
    BY <1>2 DEF Assign, TInv, TypeOK
  <2>2. QED
    BY <1>1, <2>1 DEF Unwinds, CameFrom
<1>3. CASE u # v
  <2>1. at'[u] = at[u] /\ home'[u] = home[u] /\ (u \notin strayed' => u \notin strayed)
    BY <1>3 DEF Assign, TInv, TypeOK
  <2>2. QED
    BY <1>1, <2>1 DEF Unwinds, CameFrom
<1>4. QED
  BY <1>2, <1>3

LEMMA UnwindsStep ==
  ASSUME TInv, [Next]_vars, NEW u \in User, Unwinds(u)
  PROVE  Unwinds(u)'
<1>1. ASSUME NEW c \in Call, Commit(c)
      PROVE  Unwinds(u)'
  <2>1. CASE CommitReengage(c) \/ CommitExtend(c) \/ CommitConvert(c) \/ CommitGrant(c)
    BY <2>1, UnwindsKept
       DEF CommitReengage, CommitExtend, CommitConvert, CommitGrant, logins, history
  <2>2. CASE CommitAttach(c)
    <3>1. call[c].person \in Person /\ call[c].user \in User
      BY <2>2, PendingFacts DEF CommitAttach, TInv, TypeOK
    <3>2. QED
      BY <2>2, <3>1, UnwindsAssign DEF CommitAttach
  <2>3. QED
    BY <1>1, <2>1, <2>2, UnwindsMerge, UnwindsUnmerge DEF Commit
<1>2. ASSUME NEW v \in User, NEW q \in Person, Invite(v, q)
      PROVE  Unwinds(u)'
  BY <1>2, UnwindsAssign DEF Invite
<1>3. ASSUME \/ \E c \in Call : GiveUp(c) \/ (\E what \in Pending : Ask(c, what))
             \/ \E p \in Person, r \in Role : Revoke(p, r)
             \/ \E p \in Person : Lapse(p)
             \/ \E w \in Worker :
                  SweepRead(w) \/ SweepDies(w) \/ (\E p \in Person : SweepOne(w, p))
             \/ UNCHANGED vars
      PROVE  Unwinds(u)'
  BY <1>3, UnwindsKept
     DEF GiveUp, Ask, Revoke, Lapse, SweepRead, SweepDies, SweepOne, vars, logins, history
<1>4. QED
  BY <1>1, <1>2, <1>3, AskNextKeeps DEF Next

(* The merges that moved a user lead from the person it was given to to the  *)
(* one it speaks for, so that reversing them newest first brings every user  *)
(* home, whichever calls overlap (moved_user_ids, restoreUsers).             *)
THEOREM AlwaysUnwinds == Spec => []MergesUnwind
<1>1. TInv /\ (\A u \in User : Unwinds(u)) => MergesUnwind
  <2> SUFFICES ASSUME TInv, NEW u \in User \ strayed, Unwinds(u)
               PROVE  /\ \A m \in Carrying(u) : CameFrom(u, m, merges[m].loser)
                      /\ CameFrom(u, Len(merges) + 1, at[u])
    BY DEF MergesUnwind
  <2>1. merges \in Seq(Merge) /\ at[u] \in Person \cup {Nobody}
    BY DEF TInv, TypeOK
  <2>2. Len(merges) + 1 \in Nat /\ Carrying(u) \subseteq DOMAIN merges
    BY <2>1, CarryingFacts
  <2>3. \A m \in Carrying(u) : m \in Nat /\ merges[m].loser \in Person
    BY <2>1, <2>2, MergeFacts
  <2>4. QED
    BY <2>1, <2>2, <2>3 DEF Unwinds
<1>2. Init => \A u \in User : Unwinds(u)
  BY DEF Init, Unwinds, CameFrom, Carrying
<1>3. TInv /\ (\A u \in User : Unwinds(u)) /\ [Next]_vars => (\A u \in User : Unwinds(u))'
  BY UnwindsStep
<1>4. QED
  BY <1>1, <1>2, <1>3, AlwaysTInv, PTL DEF Spec
=============================================================================
