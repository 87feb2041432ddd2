------------------------------ MODULE TeamRoster ------------------------------
(***************************************************************************)
(* Teams and their effective-dated memberships (trpc/src/routers/platform/ *)
(* team.ts, db/src/lib/effective-dating.ts and the constraints of          *)
(* migrations/20260803T100100-platform-team.ts).                           *)
(*                                                                         *)
(* A call reads first, without a lock, and then writes in one transaction; *)
(* in between others may commit.  What a transaction refuses, the          *)
(* constraints refuse.  The journal tells a reader what each event names:  *)
(* of an update or a correction, the fields that differ from what the call *)
(* had read, while the row is written whole.                               *)
(*                                                                         *)
(* Days are numbers; Open stands for a valid_to of NULL and is later than  *)
(* any.  Names, capacity and colour take the path of manager and deputy    *)
(* and are left out.  Bounds: MaxCalls calls that read.                    *)
(***************************************************************************)
EXTENDS Integers, FiniteSets

CONSTANTS Team, Person, Caller, Nobody, Idle, MaxRows, LastDay, MaxCalls

ASSUME RosterAssumption ==
  /\ Nobody \notin Person /\ Team \cap (1 .. MaxRows) = {}
  /\ {MaxRows, MaxCalls} \subseteq Nat /\ LastDay \in Nat \ {0}

VARIABLES
  today,
  team,       \* Team -> its stage, manager and deputy
  row,        \* team_membership: id -> team, person and window
  told,       \* the same two, as the journal tells them
  toldTeam,
  call,       \* Caller -> the call it has begun, with what it read
  calls,
  \* history
  overtaken,  \* teams and rows written over a change the call had not read
  outlived    \* rows left open on a team that was archived before they were written

tables     == <<team, row>>
journal    == <<told, toldTeam>>
history    == <<overtaken, outlived>>
rosterVars == <<today, tables, journal, call, calls, history>>

Day  == 1 .. LastDay
Open == LastDay + 2

Membership   == 1 .. MaxRows
NoMembership == [team |-> Nobody, person |-> Nobody, from |-> 0, to |-> 0]

RosterInit ==
  /\ today = 1
  /\ team = [t \in Team |-> [stage |-> "none", manager |-> Nobody, deputy |-> Nobody]]
  /\ row = [r \in Membership |-> NoMembership]
  /\ told = row /\ toldTeam = team
  /\ call = [c \in Caller |-> Idle] /\ calls = 0
  /\ overtaken = {} /\ outlived = {}

Stored == { r \in Membership : row[r] # NoMembership }
Live(t) == team[t].stage = "live"
-----------------------------------------------------------------------------
(* The reads: what a call finds, and so goes on from. *)

BeginCall(c, request) ==
  /\ call[c] = Idle
  /\ calls < MaxCalls /\ calls' = calls + 1
  /\ call' = [call EXCEPT ![c] = request]
  /\ UNCHANGED <<today, tables, journal, history>>

\* What an update leaves out is taken from what was read.
AskUpdate(c, t, manager, deputy) ==
  /\ Live(t)
  /\ <<manager, deputy>> # <<team[t].manager, team[t].deputy>>
  /\ BeginCall(c, [kind |-> "update", on |-> t, read |-> team[t], manager |-> manager, deputy |-> deputy])

AskArchive(c, t) == Live(t) /\ BeginCall(c, [kind |-> "archive", on |-> t])

AskAdd(c, t, p, from) ==
  Live(t) /\ BeginCall(c, [kind |-> "add", on |-> t, person |-> p, from |-> from])

\* endEffective refuses a row that had ended when it was read; nothing holds it
\* still until it is written, so of two calls that read it open the later stands.
Endable(w, to) == w.to = Open /\ to > w.from

AskEnd(c, r, to) ==
  /\ r \in Stored /\ Endable(row[r], to)
  /\ BeginCall(c, [kind |-> "end", on |-> r, read |-> row[r], to |-> to])

AskCorrect(c, r, from, to) ==
  /\ r \in Stored
  /\ <<from, to>> # <<row[r].from, row[r].to>>
  /\ BeginCall(c, [kind |-> "correct", on |-> r, read |-> row[r], from |-> from, to |-> to])
-----------------------------------------------------------------------------
(* The writes. *)

Returns(c) == call' = [call EXCEPT ![c] = Idle] /\ UNCHANGED <<today, calls>>

\* team_deputy_not_manager_check.
Create(t, manager, deputy) ==
  /\ team[t].stage = "none" /\ manager # deputy
  /\ team' = [team EXCEPT ![t] = [stage |-> "live", manager |-> manager, deputy |-> deputy]]
  /\ toldTeam' = [toldTeam EXCEPT ![t] = team'[t]]
  /\ UNCHANGED <<today, row, told, call, calls, history>>

\* Mutant: reopening a membership is not journalled.
NotedUnlessReopened(tells, read, next) == IF next # read /\ next # Open THEN next ELSE tells

\* A field is journalled if it differs from the one that was read.
Noted(tells, read, next) == IF next # read THEN next ELSE tells

Update(c) ==
  LET q == call[c]
      t == q.on
  IN /\ q # Idle /\ q.kind = "update"
     /\ q.manager # q.deputy
     /\ team' = [team EXCEPT ![t].manager = q.manager, ![t].deputy = q.deputy]
     /\ toldTeam' = [toldTeam EXCEPT ![t].manager = Noted(@, q.read.manager, q.manager),
                                     ![t].deputy = Noted(@, q.read.deputy, q.deputy)]
     /\ overtaken' = IF team[t] = [q.read EXCEPT !.stage = team[t].stage] THEN overtaken
                     ELSE overtaken \cup {t}
     /\ Returns(c)
     /\ UNCHANGED <<row, told, outlived>>

\* Mutant: memberships still to begin are left as they are.
BegunOnly(t) == { r \in Stored : row[r].team = t /\ row[r].to = Open /\ row[r].from <= today }

OpenIn(t) == { r \in Stored : row[r].team = t /\ row[r].to = Open }

\* greatest(current_date, valid_from + 1).
Ended(w) == [w EXCEPT !.to = IF today > w.from THEN today ELSE w.from + 1]

\* The event names the rows it ended, and they are ended in the journal's terms.
Archive(c) ==
  LET q == call[c]
      t == q.on
      rs == OpenIn(t)
  IN /\ q # Idle /\ q.kind = "archive"
     /\ row' = [r \in Membership |-> IF r \in rs THEN Ended(row[r]) ELSE row[r]]
     /\ told' = [r \in Membership |-> IF r \in rs THEN Ended(told[r]) ELSE told[r]]
     /\ team' = [team EXCEPT ![t].stage = "archived"]
     /\ toldTeam' = [toldTeam EXCEPT ![t].stage = "archived"]
     /\ outlived' = outlived \ rs
     /\ Returns(c)
     /\ UNCHANGED overtaken

\* team_membership_dates_check and team_membership_no_overlap, for row r.
Fits(r, w) ==
  /\ w.from < w.to
  /\ \A s \in Stored \ {r} :
       row[s].team = w.team /\ row[s].person = w.person => w.to <= row[s].from \/ row[s].to <= w.from

Outliving(r, w) ==
  IF w.to = Open /\ ~Live(w.team) THEN outlived \cup {r} ELSE outlived \ {r}

\* The team is not looked at again: its row is only referred to.
Add(c) ==
  LET q == call[c]
      w == [team |-> q.on, person |-> q.person, from |-> q.from, to |-> Open]
      r == Cardinality(Stored) + 1
  IN /\ q # Idle /\ q.kind = "add"
     /\ r \in Membership /\ Fits(r, w)
     /\ row' = [row EXCEPT ![r] = w]
     /\ told' = [told EXCEPT ![r] = w]
     /\ outlived' = Outliving(r, w)
     /\ Returns(c)
     /\ UNCHANGED <<team, toldTeam, overtaken>>

End(c) ==
  LET q == call[c]
      r == q.on
      w == [row[r] EXCEPT !.to = q.to]
  IN /\ q # Idle /\ q.kind = "end"
     /\ Fits(r, w)
     /\ row' = [row EXCEPT ![r] = w]
     /\ told' = [told EXCEPT ![r].to = q.to]
     /\ outlived' = outlived \ {r}
     /\ Returns(c)
     /\ UNCHANGED <<team, toldTeam, overtaken>>

Correct(c) ==
  LET q == call[c]
      r == q.on
      w == [row[r] EXCEPT !.from = q.from, !.to = q.to]
  IN /\ q # Idle /\ q.kind = "correct"
     /\ Fits(r, w)
     /\ row' = [row EXCEPT ![r] = w]
     /\ told' = [told EXCEPT ![r].from = Noted(@, q.read.from, q.from),
                             ![r].to = Noted(@, q.read.to, q.to)]
     /\ overtaken' = IF row[r] = q.read THEN overtaken ELSE overtaken \cup {r}
     /\ outlived' = Outliving(r, w)
     /\ Returns(c)
     /\ UNCHANGED <<team, toldTeam>>

\* Refused by a constraint, or rolled back for any other reason.
Fails(c) ==
  /\ call[c] # Idle
  /\ Returns(c)
  /\ UNCHANGED <<tables, journal, history>>

NextDay == today < LastDay /\ today' = today + 1 /\ UNCHANGED <<tables, journal, call, calls, history>>

Ask(c) ==
  \/ \E t \in Team, m \in Person, d \in Person \cup {Nobody} : AskUpdate(c, t, m, d)
  \/ \E t \in Team : AskArchive(c, t)
  \/ \E t \in Team, p \in Person, from \in Day : AskAdd(c, t, p, from)
  \/ \E r \in Membership, to \in Day : AskEnd(c, r, to)
  \/ \E r \in Membership, from \in Day, to \in Day \cup {Open} : AskCorrect(c, r, from, to)

Write(c) == Update(c) \/ Archive(c) \/ Add(c) \/ End(c) \/ Correct(c)

RosterNext ==
  \/ \E t \in Team, m \in Person, d \in Person \cup {Nobody} : Create(t, m, d)
  \/ \E c \in Caller : Ask(c) \/ Write(c) \/ Fails(c)
  \/ NextDay

RosterSpec == RosterInit /\ [][RosterNext]_rosterVars
-----------------------------------------------------------------------------
(***************************************************************************)
(* Properties.                                                             *)
(***************************************************************************)
\* Type invariant.
RosterTypeOK ==
  /\ today \in Day
  /\ \A x \in {team, toldTeam} :
       x \in [Team -> [stage : {"none", "live", "archived"}, manager : Person \cup {Nobody},
                       deputy : Person \cup {Nobody}]]
  /\ \A x \in {row, told} :
       x \in [Membership -> [team : Team \cup {Nobody}, person : Person \cup {Nobody},
                      from : 0 .. LastDay, to : 0 .. Open]]
  /\ calls \in 0 .. MaxCalls
  /\ overtaken \subseteq Team \cup Membership /\ outlived \subseteq Membership

\* "This event is their only history": whatever calls overlap, the events of a team
\* add up to its manager, its deputy and its memberships, but for what an update or
\* a correction wrote over a change it had not read.
JournalIsTheHistory ==
  /\ \A t \in Team : t \in overtaken \/ toldTeam[t] = team[t]
  /\ \A r \in Membership : r \in overtaken \/ told[r] = row[r]

\* "No membership is left dangling open against a team that no longer exists": but
\* for one written after the archive, by a call that had read the team before or by
\* a correction, which does not read it.
ArchivedTeamsAreClosed ==
  \A r \in Stored : row[r].to = Open => Live(row[r].team) \/ r \in outlived
=============================================================================
