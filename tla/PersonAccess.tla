---------------------------- MODULE PersonAccess ----------------------------
(***************************************************************************)
(* Who a login speaks for, and what it may do: persons, their logins,      *)
(* their roles, the merging of two records of one human being and its      *)
(* reversal, and the sweep that ends the access of externals               *)
(* (trpc/src/routers/platform/identity.ts and authz.ts,                    *)
(* identity/src/index.ts, db/src/authz.ts, worker identity-access-expiry). *)
(*                                                                         *)
(* Most procedures read and check first, and write in a transaction of     *)
(* their own afterwards: Ask and Commit of one call.  What holds in        *)
(* between is what the database enforces: person_merge_active_uq,          *)
(* role_grant_live_uq, the one-time reversal stamp, and no expiry for      *)
(* employees.  A transaction is one step: two that write one row wait for  *)
(* each other or fail as a deadlock, and a row one of them reads and the   *)
(* other changes has its order in Ask and Commit.                          *)
(*                                                                         *)
(* The persons are those on record.  Names, flags, profile status and the  *)
(* journal are left out; sessions end with the ban.                        *)
(* Bounds: MaxCalls calls, MaxDeaths lost sweeps.                          *)
(***************************************************************************)
EXTENDS Integers, Sequences, FiniteSets

CONSTANTS
  Person, User, Role,
  External, Owner, Holds,  \* at first: who is no employee, whose users, which roles
  Call, Worker,
  MaxCalls, MaxDeaths,
  Nobody

ASSUME PersonAssumption ==
  /\ External \subseteq Person
  /\ Owner \in [User -> Person \cup {Nobody}]
  /\ Holds \in [Person -> SUBSET Role]
  /\ Nobody \notin Person
  /\ {MaxCalls, MaxDeaths} \subseteq Nat

VARIABLES
  external,   \* the persons that are not employees (relationship_type)
  status,     \* Person -> active, inactive, superseded
  until,      \* Person -> access_valid_until: none, ahead or past
  at,         \* User -> the person it speaks for (person_id)
  banned,     \* the users that cannot sign in
  roles,      \* Person -> the roles it holds by a grant not revoked, its window aside
  merges,     \* person_merge, in the order of commits
  call,       \* Call -> what it has checked and not yet written
  due,        \* Worker -> the persons its sweep has still to end
  \* history
  home,       \* User -> the person it was last given to, merges apart
  strayed,    \* users that MergesUnwind says nothing of (see there)
  revived,    \* persons that were re-engaged while not inactive
  since,      \* Person -> roles and users given to it since it lost its access
  calls, deaths

people  == <<external, status, until>>
logins  == <<at, banned>>
history == <<home, strayed, revived, since>>
vars    == <<people, logins, roles, merges, call, due, history, calls, deaths>>

Idle == [op |-> "idle"]

\* What a call has read and is about to write.
Pending ==
  {Idle}
  \cup [op : {"merge"}, survivor : Person, loser : Person]
  \cup [op : {"unmerge"}, merge : 1 .. MaxCalls]
  \cup [op : {"reengage", "extend", "convert"}, person : Person]
  \cup [op : {"grant"}, person : Person, role : Role]
  \cup [op : {"attach"}, person : Person, user : User]

Merge == [loser : Person, survivor : Person, moved : SUBSET User, revoked : SUBSET Role,
          reversed : BOOLEAN]

TypeOK ==
  /\ external \subseteq External
  /\ status \in [Person -> {"active", "inactive", "superseded"}]
  /\ until \in [Person -> {"none", "ahead", "past"}]
  /\ \A p \in Person \ external : until[p] = "none"
  /\ at \in [User -> Person \cup {Nobody}]
  /\ banned \subseteq User
  /\ roles \in [Person -> SUBSET Role]
  /\ merges \in Seq(Merge)
  /\ call \in [Call -> Pending]
  /\ due \in [Worker -> SUBSET Person]
  /\ home \in [User -> Person \cup {Nobody}]
  /\ strayed \subseteq User
  /\ revived \subseteq Person
  /\ since \in [Person -> SUBSET (Role \cup User)]
  /\ calls \in 0 .. MaxCalls /\ deaths \in 0 .. MaxDeaths

UsersOf(p) == { u \in User : at[u] = p }

\* The merges not reversed that gave p away, and those that moved u.
LiveMerges(p) == { m \in DOMAIN merges : ~merges[m].reversed /\ merges[m].loser = p }

Carrying(u) == { m \in DOMAIN merges : ~merges[m].reversed /\ u \in merges[m].moved }

\* Everything given to an active person is its own business.
Lacking(p) == status[p] # "active"
-----------------------------------------------------------------------------
Init ==
  /\ external = External
  /\ status = [p \in Person |-> "active"]
  /\ until = [p \in Person |-> IF p \in External THEN "ahead" ELSE "none"]
  /\ at = Owner /\ home = Owner
  /\ banned = {}
  /\ roles = Holds
  /\ merges = <<>>
  /\ call = [c \in Call |-> Idle]
  /\ due = [w \in Worker |-> {}]
  /\ strayed = {} /\ revived = {}
  /\ since = [p \in Person |-> {}]
  /\ calls = 0 /\ deaths = 0

\* A call passes its checks, and has yet to write.
Ask(c, what) ==
  /\ call[c] = Idle
  /\ calls < MaxCalls
  /\ calls' = calls + 1
  /\ call' = [call EXCEPT ![c] = what]
  /\ UNCHANGED <<people, logins, roles, merges, due, history, deaths>>

\* Both must be active, and the loser not already given away.
AskMerge(c, s, l) ==
  /\ s # l
  /\ status[s] = "active" /\ status[l] = "active"
  /\ LiveMerges(l) = {}
  /\ Ask(c, [op |-> "merge", survivor |-> s, loser |-> l])

AskUnmerge(c, m) ==
  /\ m \in DOMAIN merges
  /\ ~merges[m].reversed
  /\ Ask(c, [op |-> "unmerge", merge |-> m])

AskReengage(c, p) ==
  /\ status[p] = "inactive"
  /\ Ask(c, [op |-> "reengage", person |-> p])

\* setAccessValidUntil, and convertToEmployee.
AskOfExternal(c, p) ==
  /\ p \in external
  /\ \E what \in {"extend", "convert"} : Ask(c, [op |-> what, person |-> p])

AskGrant(c, p, r) ==
  /\ r \notin roles[p]
  /\ Ask(c, [op |-> "grant", person |-> p, role |-> r])

\* A first sign-in finds the active person of its address.
AskAttach(c, u, p) ==
  /\ at[u] = Nobody
  /\ status[p] = "active"
  /\ Ask(c, [op |-> "attach", person |-> p, user |-> u])

Done(c) == call' = [call EXCEPT ![c] = Idle]

\* A call that meets a constraint, or fails for any other reason, writes nothing.
GiveUp(c) ==
  /\ call[c] # Idle
  /\ Done(c)
  /\ UNCHANGED <<people, logins, roles, merges, due, history, calls, deaths>>

\* merge: the users go to the survivor, the roles to nobody.
CommitMerge(c) ==
  /\ call[c].op = "merge"
  /\ LET s == call[c].survivor
         l == call[c].loser
     IN  /\ LiveMerges(l) = {}
         /\ at' = [u \in User |-> IF u \in UsersOf(l) THEN s ELSE at[u]]
         /\ roles' = [roles EXCEPT ![l] = {}]
         /\ merges' = Append(merges, [loser |-> l, survivor |-> s, moved |-> UsersOf(l),
                                      revoked |-> roles[l], reversed |-> FALSE])
         /\ status' = [status EXCEPT ![l] = "superseded"]
         /\ since' = [since EXCEPT ![s] = @ \cup UsersOf(l), ![l] = {}]
  /\ Done(c)
  /\ UNCHANGED <<external, until, banned, due, home, strayed, revived, calls, deaths>>

\* Mutant: a reversal sends home every user the survivor has by now.
RestoredAll(m) == UsersOf(merges[m].survivor)

\* restoreUsers, of moved_user_ids.
Restored(m) == merges[m].moved

\* unmerge: users and person come back, and the roles whose window is still open;
\* person_merge_guard lets the stamp be set once.
CommitUnmerge(c) ==
  /\ call[c].op = "unmerge"
  /\ LET m == call[c].merge
         l == merges[m].loser
     IN  /\ ~merges[m].reversed
         /\ at' = [u \in User |-> IF u \in Restored(m) THEN l ELSE at[u]]
         /\ \E open \in SUBSET merges[m].revoked : roles' = [roles EXCEPT ![l] = @ \cup open]
         /\ merges' = [merges EXCEPT ![m] = [@ EXCEPT !.reversed = TRUE]]
         /\ status' = [status EXCEPT ![l] = "active"]
         /\ strayed' = strayed \cup { u \in merges[m].moved : \E n \in Carrying(u) : n > m }
         /\ revived' = revived \ {l}
  /\ Done(c)
  /\ UNCHANGED <<external, until, banned, due, home, since, calls, deaths>>

\* person_access_expiry_not_for_employees.
MayExpire(p) == p \in external

\* reengage.
CommitReengage(c) ==
  /\ call[c].op = "reengage"
  /\ LET p == call[c].person
     IN  /\ MayExpire(p)
         /\ status' = [status EXCEPT ![p] = "active"]
         /\ until' = [until EXCEPT ![p] = "ahead"]
         /\ banned' = banned \ UsersOf(p)
         /\ revived' = IF status[p] = "superseded" THEN revived \cup {p} ELSE revived
  /\ Done(c)
  /\ UNCHANGED <<external, at, roles, merges, due, home, strayed, since, calls, deaths>>

\* setAccessValidUntil.
CommitExtend(c) ==
  /\ call[c].op = "extend"
  /\ MayExpire(call[c].person)
  /\ until' = [until EXCEPT ![call[c].person] = "ahead"]
  /\ Done(c)
  /\ UNCHANGED <<external, status, logins, roles, merges, due, history, calls, deaths>>

\* convertToEmployee.
CommitConvert(c) ==
  /\ call[c].op = "convert"
  /\ external' = external \ {call[c].person}
  /\ until' = [until EXCEPT ![call[c].person] = "none"]
  /\ Done(c)
  /\ UNCHANGED <<status, logins, roles, merges, due, history, calls, deaths>>

\* Given to a person without access, whatever it is counts as given since.
Given(p, x) == since' = IF Lacking(p) THEN [since EXCEPT ![p] = @ \cup {x}] ELSE since

\* authz.grants.grant: one live grant of a role to a person.
CommitGrant(c) ==
  /\ call[c].op = "grant"
  /\ LET p == call[c].person
         r == call[c].role
     IN  /\ r \notin roles[p]
         /\ roles' = [roles EXCEPT ![p] = @ \cup {r}]
         /\ Given(p, r)
  /\ Done(c)
  /\ UNCHANGED <<people, logins, merges, due, home, strayed, revived, calls, deaths>>

\* A user given to a person by hand: merges that moved it say nothing of it any more.
Assign(u, p) ==
  /\ at' = [at EXCEPT ![u] = p]
  /\ home' = [home EXCEPT ![u] = p]
  /\ strayed' = IF Carrying(u) = {} THEN strayed ELSE strayed \cup {u}
  /\ Given(p, u)

\* ensurePersonForNewUser.
CommitAttach(c) ==
  /\ call[c].op = "attach"
  /\ Assign(call[c].user, call[c].person)
  /\ Done(c)
  /\ UNCHANGED <<people, banned, roles, merges, due, revived, calls, deaths>>

\* invite: a user of that address is created, or given to the person invited.
Invite(u, p) ==
  /\ calls < MaxCalls /\ calls' = calls + 1
  /\ at[u] # p
  /\ Assign(u, p)
  /\ UNCHANGED <<people, banned, roles, merges, call, due, revived, deaths>>

\* authz.grants.revoke, under a row lock.
Revoke(p, r) ==
  /\ calls < MaxCalls /\ calls' = calls + 1
  /\ r \in roles[p]
  /\ roles' = [roles EXCEPT ![p] = @ \ {r}]
  /\ UNCHANGED <<people, logins, merges, call, due, history, deaths>>
-----------------------------------------------------------------------------
\* Time passes.
Lapse(p) ==
  /\ until[p] = "ahead"
  /\ until' = [until EXCEPT ![p] = "past"]
  /\ UNCHANGED <<external, status, logins, roles, merges, call, due, history, calls, deaths>>

\* Mutant: the sweep looks for dates still to come.
NotExpired(p) == until[p] = "ahead"

\* access_valid_until < now().
Expired(p) == until[p] = "past"

\* Mutant: the sweep ends whoever it read, whatever became of them.
Whoever(p) == TRUE

\* WHERE status = 'active', in the sweep's transaction.
StillActive(p) == status[p] = "active"

\* runAccessExpirySweep reads whom it is to end; a sweep may be delivered twice.
SweepRead(w) ==
  /\ due[w] = {}
  /\ due' = [due EXCEPT ![w] = { p \in Person : status[p] = "active" /\ Expired(p) }]
  /\ due'[w] # {}
  /\ UNCHANGED <<people, logins, roles, merges, call, history, calls, deaths>>

\* Mutant: the sweep leaves the roles.
Spared(p) == roles[p]

\* What is left of its roles to a person the sweep ends (revokeAllGrantsForPerson).
Left(p) == {}

\* One person, in a transaction: inactive, banned, without roles; or nothing at all.
SweepOne(w, p) ==
  /\ p \in due[w]
  /\ due' = [due EXCEPT ![w] = @ \ {p}]
  /\ IF StillActive(p)
       THEN /\ status' = [status EXCEPT ![p] = "inactive"]
            /\ banned' = banned \cup UsersOf(p)
            /\ roles' = [roles EXCEPT ![p] = Left(p)]
            /\ since' = [since EXCEPT ![p] = {}]
       ELSE UNCHANGED <<status, banned, roles, since>>
  /\ UNCHANGED <<external, until, at, merges, call, home, strayed, revived, calls, deaths>>

\* A worker dies; the sweep of the next day reads again.
SweepDies(w) ==
  /\ due[w] # {}
  /\ deaths < MaxDeaths
  /\ deaths' = deaths + 1
  /\ due' = [due EXCEPT ![w] = {}]
  /\ UNCHANGED <<people, logins, roles, merges, call, history, calls>>
-----------------------------------------------------------------------------
Commit(c) ==
  \/ CommitMerge(c) \/ CommitUnmerge(c) \/ CommitReengage(c) \/ CommitExtend(c)
  \/ CommitConvert(c) \/ CommitGrant(c) \/ CommitAttach(c)

Next ==
  \/ \E c \in Call :
       \/ \E s, l \in Person : AskMerge(c, s, l)
       \/ \E m \in 1 .. MaxCalls : AskUnmerge(c, m)
       \/ \E p \in Person : AskReengage(c, p) \/ AskOfExternal(c, p)
       \/ \E p \in Person, r \in Role : AskGrant(c, p, r)
       \/ \E u \in User, p \in Person : AskAttach(c, u, p)
       \/ Commit(c)
       \/ GiveUp(c)
  \/ \E u \in User, p \in Person : Invite(u, p)
  \/ \E p \in Person, r \in Role : Revoke(p, r)
  \/ \E p \in Person : Lapse(p)
  \/ \E w \in Worker : SweepRead(w) \/ SweepDies(w) \/ (\E p \in Person : SweepOne(w, p))

Spec == Init /\ [][Next]_vars

\* The sweep runs every day, and the queue hands it to a worker that lives.
Sweeping(w) == WF_vars(SweepRead(w)) /\ \A p \in Person : WF_vars(SweepOne(w, p))

FairSpec == Spec /\ \A w \in Worker : Sweeping(w)
-----------------------------------------------------------------------------
(* A person is superseded by exactly one merge, whatever was checked before *)
(* the transaction, and a merge that stands supersedes: only a re-engage-   *)
(* ment decided before the merge may bring its loser back unreversed.       *)
SupersededByOneMerge ==
  \A p \in Person :
    /\ status[p] = "superseded" => Cardinality(LiveMerges(p)) = 1
    /\ LiveMerges(p) # {} => status[p] = "superseded" \/ p \in revived

\* By the merges before m, p is the person u spoke for when m was made.
CameFrom(u, m, p) ==
  LET earlier == { n \in Carrying(u) : n < m }
  IN  \/ earlier = {} /\ p = home[u]
      \/ \E n \in earlier : earlier \subseteq 1 .. n /\ p = merges[n].survivor

(* The merges that moved a user, oldest first, lead from the person it was  *)
(* given to to the one it speaks for, so reversing them newest first brings *)
(* it home, however calls overlapped (repointUsers, restoreUsers,           *)
(* moved_user_ids).  Strayed users are those of a merge reversed before a   *)
(* later one that moved them too, and those given away by hand meanwhile.   *)
MergesUnwind ==
  \A u \in User \ strayed :
    /\ \A m \in Carrying(u) : CameFrom(u, m, merges[m].loser)
    /\ CameFrom(u, Len(merges) + 1, at[u])

(* A person whose access was ended, by the sweep or by a merge, holds only  *)
(* roles and has only users able to sign in that it was given since: a call *)
(* that was under way when it ended, or one that came later.                *)
EndedStaysEnded ==
  \A p \in Person : Lacking(p) =>
    /\ roles[p] \subseteq since[p]
    /\ UsersOf(p) \ banned \subseteq since[p]

(* Access that has run out is ended, or prolonged, in spite of sweeps that  *)
(* die on the way and calls that interleave with them.                      *)
OverdueIsEnded ==
  \A p \in Person :
    status[p] = "active" /\ until[p] = "past" ~> status[p] # "active" \/ until[p] # "past"
=============================================================================
