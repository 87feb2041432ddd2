------------------------------ MODULE PersonRules ------------------------------
(***************************************************************************)
(* Rules about persons that need no state: role grants and their scopes    *)
(* (domain/src/authz/grants.ts, trpc/src/lib/scope.ts), periods (lib/      *)
(* period.ts), suspected duplicates, the flags a merge copies and the      *)
(* profile statuses (domain/src/identity), the class of a person's fields  *)
(* (trpc/src/lib/field-classification.ts), and who a notification goes to  *)
(* (trpc/src/lib/notify-resolve.ts).                                       *)
(*                                                                         *)
(* Instants are numbers, Forever an absent end, Absent an attribute that   *)
(* is not given.  Names are compared after folding; a name here is one     *)
(* that is folded already.                                                 *)
(***************************************************************************)
LOCAL INSTANCE Integers
LOCAL INSTANCE Sequences
LOCAL INSTANCE SequencesExt

Forever == 1000
Absent  == "absent"
NoTeam  == "no team"
NoPerson == "nobody"
DayLength == 2

WithinPeriod(at, from, to) == from <= at /\ at < to
Overlaps(aFrom, aTo, bFrom, bTo) == aFrom < bTo /\ bFrom < aTo

IsGrantActive(g, at) == ~g.revoked /\ WithinPeriod(at, g.validFrom, g.validUntil)

GrantState(g, at) ==
  CASE g.revoked -> "revoked"
    [] ~g.revoked /\ at >= g.validUntil -> "expired"
    [] ~g.revoked /\ at < g.validUntil /\ at < g.validFrom -> "pending"
    [] OTHER -> "active"

HasRole(grants, roles, module, at) ==
  \E g \in grants : g.module = module /\ g.role \in roles /\ IsGrantActive(g, at)

\* SCOPE_BY_ROLE: what a role lets one see of other persons; others, oneself.
ScopeByRole(role) ==
  CASE role \in {"administrator", "hr_user", "director"} -> "all"
    [] role = "line_manager" -> "team"
    [] role = "external_administrator" -> "allocated"
    [] OTHER -> "self"

ScopeRank(scope) == CASE scope = "self" -> 0 [] scope = "allocated" -> 1 [] scope = "team" -> 2 [] scope = "all" -> 3

\* The loop over the grants as they were read, which keeps the widest so far.
ScopeFor(grants, module, at) ==
  LET wider(widest, g) == IF g.module = module /\ IsGrantActive(g, at)
                             /\ ScopeRank(ScopeByRole(g.role)) > ScopeRank(widest)
                          THEN ScopeByRole(g.role) ELSE widest
  IN FoldLeft(wider, "self", grants)

Agree(a, b, fields) == \A f \in fields : a[f] # Absent /\ a[f] = b[f]

MatchDuplicate(a, b) ==
  (IF Agree(a, b, {"family", "given", "born"}) THEN {"name_dob"} ELSE {}) \cup
  (IF Agree(a, b, {"agencyRef"}) THEN {"agency_ref"} ELSE {})

\* A flag of the loser is copied unless the survivor had one of its type before.
PlanFlagUnion(survivor, loser) == { f \in loser : \A s \in survivor : s.type # f.type }

Transitions ==
  [draft_shell           |-> {"information_requested"},
   information_requested |-> {"information_submitted"},
   information_submitted |-> {"pending_review"},
   pending_review        |-> {"incomplete_rejected", "approved_not_active"},
   incomplete_rejected   |-> {"information_requested"},
   approved_not_active   |-> {"active"},
   active                |-> {"active_with_restrictions", "inactive", "leaver"},
   active_with_restrictions |-> {"active", "inactive", "leaver"},
   inactive              |-> {"reactivated"},
   leaver                |-> {"reactivated"},
   reactivated           |-> {"active"}]
\* calendarDay: the day of an instant, in UTC.
CalendarDay(at) == at \div DayLength

\* roleHoldersAt: any module; NoTeam asks for all of them.
RoleHoldersAt(grants, memberships, teams, role, team, at) ==
  LET on == CalendarDay(at)
      isMember(p) == team \in DOMAIN teams /\
                     \E m \in memberships : m.person = p /\ m.team = team /\ WithinPeriod(on, m.validFrom, m.validTo)
  IN { p \in { g.person : g \in { h \in grants : h.role = role /\ IsGrantActive(h, at) } } :
         team = NoTeam \/ isMember(p) }

TeamManagersAt(teams, team) ==
  IF team \in DOMAIN teams THEN {teams[team].manager, teams[team].deputy} \ {NoPerson} ELSE {}

\* resolveRecipients: notify is who the policy of the subject notifies, if it resolves;
\* context is what the resolver of the subject's type knows of it, if there is one.
ResolveRecipients(n, grants, memberships, teams, notify, context, at) ==
  CASE n.kind = "role" -> RoleHoldersAt(grants, memberships, teams, n.role, n.team, at)
    [] n.kind = "policy" -> IF n.policyRef \in {Absent, notify.policy} THEN notify.persons ELSE {}
    [] n.kind = "contextual" ->
         CASE n.contextual = "subject_person" -> {context.subject} \ {NoPerson}
           [] n.contextual = "requester" -> {context.requester} \ {NoPerson}
           [] n.contextual = "subject_line_manager" -> TeamManagersAt(teams, context.team)

\* allocatedPersonIds, managedPersonIds: the clocks differ, an instant and a day.  A team
\* that is archived has no manager (TeamManagersAt).
AllocatedPersonIds(allocations, viewer, at) ==
  { a.person : a \in { b \in allocations : /\ b.admin = viewer /\ ~b.ended
                                          /\ WithinPeriod(at, b.validFrom, b.validUntil) } }

ManagedPersonIds(memberships, teams, viewer, at) ==
  { m.person : m \in { n \in memberships :
      /\ viewer \in TeamManagersAt(teams, n.team)
      /\ WithinPeriod(CalendarDay(at), n.validFrom, n.validTo) } }

\* scopePersons: the persons of everyone a query keeps.
ScopePersons(everyone, allocations, memberships, teams, viewer, scope, at) ==
  CASE scope = "all" -> everyone
    [] scope = "self" -> {viewer}
    [] scope = "team" -> ManagedPersonIds(memberships, teams, viewer, at)
    [] scope = "allocated" -> AllocatedPersonIds(allocations, viewer, at)

\* grants.grant, for one person, and allocations.add: who is there already is who was not
\* revoked or ended, whatever the windows.
GrantAccepted(grants, g) ==
  g.validFrom < g.validUntil /\ \A h \in grants : h.module = g.module /\ h.role = g.role => h.revoked

AllocationAccepted(allocations, adminGrants, a) ==
  /\ a.admin # a.person /\ a.validFrom < a.validUntil
  /\ \E g \in adminGrants : g.role = "external_administrator" /\ ~g.revoked
  /\ \A b \in allocations : b.admin = a.admin /\ b.person = a.person => b.ended

\* restoreMergeRevokedGrants: given anew from now on, unless over or given since.
RestoredGrants(revoked, live, now) ==
  { [g EXCEPT !.validFrom = now, !.revoked = FALSE] : g \in
      { h \in revoked : h.validUntil > now /\ \A l \in live : ~(l.role = h.role /\ l.module = h.module /\ ~l.revoked) } }

\* The class of each field (schemas.ts), and what a ceiling lets through.
ClassRank == [public |-> 0, internal |-> 1, sensitive |-> 2, special |-> 3]
Columns == {"id", "relationship_type", "profile_status", "status", "display_name", "given_name", "family_name",
            "agency_worker_reference", "access_valid_until", "created_at", "updated_at"}
PersonClassification ==
  [ f \in Columns \cup {"contact_email", "date_of_birth"} |-> IF f \in Columns THEN "internal" ELSE "sensitive" ]
PersonFlagClassification ==
  [id |-> "internal", person_id |-> "internal", source_merge_id |-> "internal", source_flag_id |-> "internal",
   raised_at |-> "sensitive", raised_by |-> "sensitive", ended_at |-> "sensitive", ended_by |-> "sensitive",
   flag_type |-> "special", reason |-> "special", end_reason |-> "special"]

FieldsUpTo(map, class)  == { f \in DOMAIN map : ClassRank[map[f]] <= ClassRank[class] }
FieldsOfClass(map, class) == { f \in DOMAIN map : map[f] = class }
CeilingForRoles(roles) == IF roles \cap {"administrator", "hr_user"} # {} THEN "special" ELSE "internal"

PersonColumnsFor(grants) ==
  IF CeilingForRoles({ g.role : g \in grants }) \in {"special", "sensitive"}
  THEN Columns \cup {"contact_email", "date_of_birth"} ELSE Columns

\* getPerson, of the grants the request was given: those not revoked (loadGrantsForPerson).
\* sees[s] is what scopePersons makes of scope s.
GetPerson(grants, person, flags, sees, at) ==
  LET held    == { g \in grants : ~g.revoked }
      special == CeilingForRoles({ g.role : g \in held }) = "special"
      readers == {"administrator", "hr_user", "director", "line_manager", "external_administrator"}
  IN CASE ~HasRole(held, readers, "platform", at) -> [answer |-> "forbidden"]
       [] HasRole(held, readers, "platform", at) /\ person \notin sees[ScopeFor(SetToSeq(held), "platform", at)] ->
            [answer |-> "not found"]
       [] OTHER -> [answer    |-> "found",
                    columns   |-> PersonColumnsFor(held),
                    flags     |-> IF special THEN flags ELSE {},
                    journaled |-> IF special /\ flags # {} THEN FieldsOfClass(PersonFlagClassification, "special") ELSE {}]

\* canView of the workflow router: def is the module of the definition, or Absent.
CanView(grants, actor, creator, def, roles, at) ==
  \/ HasRole(grants, {"administrator"}, "platform", at)
  \/ actor # NoPerson /\ actor = creator
  \/ def # Absent /\ HasRole(grants, roles, def, at)
-----------------------------------------------------------------------------
(***************************************************************************)
(* PersonRules against their meaning, over five instants and all windows   *)
(* in them.                                                                *)
(***************************************************************************)
LOCAL Instants == 0 .. 4
LOCAL Ends     == Instants \cup {Forever}
LOCAL Grants(roles, modules) ==
  [role : roles, module : modules, validFrom : {0, 2}, validUntil : {1, 3, Forever}, revoked : BOOLEAN]

\* Two periods overlap exactly when some instant is in both; "periods that merely touch
\* do not".  It needs both to be periods: an empty one inside another overlaps it.
ASSUME OverlapIsACommonInstant ==
  /\ \A a, b \in Instants, c, d \in Ends : a < c /\ b < d =>
       (Overlaps(a, c, b, d) <=> \E t \in Instants : WithinPeriod(t, a, c) /\ WithinPeriod(t, b, d))
  /\ Overlaps(2, 2, 0, 4)

\* What the list of grants shows agrees with what is enforced, whatever the window, and
\* the state of a grant only moves on with time.
ASSUME GrantStateIsEnforced ==
  \A from \in Instants, to \in Ends, r \in BOOLEAN :
    LET g == [validFrom |-> from, validUntil |-> to, revoked |-> r]
        age == [revoked |-> 0, pending |-> 1, active |-> 2, expired |-> 3]
    IN \A s, t \in Instants :
         /\ GrantState(g, t) = "active" <=> IsGrantActive(g, t)
         /\ s <= t => age[GrantState(g, s)] <= age[GrantState(g, t)]

\* "Scope can never be wider than reach": to see another person one needs a role in
\* force in that very module, the widest counts in whatever order, and one grant more
\* never narrows it.
ASSUME ScopeNeverWiderThanReach ==
  \A f, g \in Grants({"line_manager", "director", "employee"}, {"platform"}),
     h \in Grants({"external_administrator", "director"}, {"platform", "other"}), at \in {0, 1, 2, 3} :
    LET before == ScopeRank(ScopeFor(<<f, g>>, "platform", at))
        after  == ScopeFor(<<f, h, g>>, "platform", at)
        held   == { x \in {f, g, h} : HasRole({x}, {x.role}, "platform", at) }
    IN /\ before <= ScopeRank(after)
       /\ \A x \in held : ScopeRank(ScopeByRole(x.role)) <= ScopeRank(after)
       /\ after # "self" => \E x \in held : ScopeByRole(x.role) = after

\* What a viewer sees ends by itself: nobody stays visible through a team that is gone, a
\* membership or an allocation whose last day has passed, whatever rows are left.  But the
\* scopes are not nested, though ranked: who manages a team does not see the own record
\* unless a member, nor who is allocated persons at all, though who holds nothing does; and
\* with both roles the allocated persons are lost to the team.
LOCAL People == {"x", "v"}
LOCAL Seats  == [person : People, team : {"t", "gone"}, validFrom : {0}, validTo : {1, Forever}]
LOCAL Shares == [admin : {"v", "y"}, person : {"x"}, ended : BOOLEAN, validFrom : {0, 3}, validUntil : {2, Forever}]
LOCAL Held(role) == [role |-> role, module |-> "platform", validFrom |-> 0, validUntil |-> Forever, revoked |-> FALSE]
ASSUME ScopesEndButDoNotNest ==
  \A seat \in Seats, share \in Shares, lead \in [manager : {"v", "y"}, deputy : {"v", NoPerson}], at \in 0 .. 3 :
    LET sees(roles) == ScopePersons(People, {share}, {seat}, [t |-> lead], "v",
                         ScopeFor([i \in 1 .. Len(roles) |-> Held(roles[i])], "platform", at), at)
        manager  == <<"employee", "line_manager">>
        sharer   == <<"external_administrator">>
        leads    == lead.manager = "v" \/ lead.deputy = "v"
    IN /\ sees(manager) = IF leads /\ seat.team = "t" /\ at < seat.validTo * DayLength THEN {seat.person} ELSE {}
       /\ sees(sharer) = IF share.admin = "v" /\ ~share.ended /\ WithinPeriod(at, share.validFrom, share.validUntil)
                         THEN {"x"} ELSE {}
       /\ sees(manager) \cup sees(sharer) \cup sees(<<>>) \subseteq sees(<<"director", "line_manager">>)
       /\ sees(<<>>) = {"v"} /\ sees(sharer \o manager) = sees(manager)

\* A grant that is over authorises nothing, and yet keeps its role from being given anew
\* until it is revoked; and allocating somebody to a holder whose role is over, or not to
\* begin yet, is accepted, though "without it the row would grant nothing and quietly imply
\* access that does not exist".
LOCAL Given == Grants({"external_administrator"}, {"platform"})
LOCAL Share(admin, person) == [admin |-> admin, person |-> person, ended |-> FALSE, validFrom |-> 0, validUntil |-> Forever]
ASSUME WindowsDoNotMakeRoom ==
  \A g \in Given, at \in Instants :
    LET roles == {"external_administrator"}
        again == [g EXCEPT !.validFrom = at, !.validUntil = Forever, !.revoked = FALSE]
    IN /\ GrantAccepted({g}, again) <=> GrantState(g, at) = "revoked"
       /\ AllocationAccepted({}, {g}, Share("v", "x")) <=> ~g.revoked
       /\ HasRole({g}, roles, "platform", at) => AllocationAccepted({}, {g}, Share("v", "x"))
       /\ ~AllocationAccepted({Share("v", "x")}, {g}, Share("v", "x")) /\ ~AllocationAccepted({}, {g}, Share("v", "v"))

\* Reversing a merge leaves one live grant of a role in a module, as the index wants, none
\* of them over; but a grant that was not to begin yet is in force at once.
ASSUME RestoredGrantsAreInForce ==
  \A g \in Grants({"director"}, {"platform"}), l \in Grants({"director", "employee"}, {"platform", "hr"}), now \in Instants :
    LET back == RestoredGrants({g}, {l}, now)
        both == { x \in {l} \cup back : ~x.revoked /\ x.role = "director" /\ x.module = "platform" }
    IN /\ \A x, y \in both : x = y
       /\ \A x \in back : IsGrantActive(x, now) /\ x.validUntil = g.validUntil
       /\ l.revoked => (back = {} <=> g.validUntil <= now)
       /\ back # {} /\ g.validFrom > now => ~IsGrantActive([g EXCEPT !.revoked = FALSE], now)

\* The columns a query names are those of the class: they cannot drift from the maps, and
\* no special category is on the record itself.  With one grant more nobody sees less of a
\* person in sight, and nobody sees what is sensitive without one of the two roles, nor what
\* is special without it being journalled.  But a class goes by the role alone: an hr_user
\* whose grant is over, or of another module, keeps it wherever another role reads.
ASSUME FieldsFollowTheRole ==
  /\ Columns = FieldsUpTo(PersonClassification, "internal")
  /\ PersonColumnsFor({Held("hr_user")}) = FieldsUpTo(PersonClassification, "sensitive")
  /\ FieldsOfClass(PersonClassification, "special") = {}
  /\ FieldsUpTo(PersonFlagClassification, "special") = DOMAIN PersonFlagClassification
  /\ \A f \in Grants({"director", "employee"}, {"platform"}), g \in Grants({"hr_user", "line_manager"}, {"platform", "hr"}),
        at \in Instants, flags \in SUBSET {"flag"} :
       LET sees == [all |-> {"x"}, team |-> {}, allocated |-> {}, self |-> {}]
           answer(grants) == GetPerson(grants, "x", flags, sees, at)
           before == answer({f})
           after  == answer({f, g})
           reader == HasRole({f, g}, {"director", "hr_user"}, "platform", at)
       IN /\ after.answer = "found" <=> reader
          /\ before.answer = "found" => after.answer = "found" /\ before.columns \subseteq after.columns
          /\ after.answer = "found" =>
               /\ "date_of_birth" \in after.columns <=> g.role = "hr_user" /\ ~g.revoked
               /\ after.flags # {} => {"flag_type", "reason"} \subseteq after.journaled
               /\ after.journaled # {} <=> flags # {} /\ "date_of_birth" \in after.columns

\* A case is in sight of whoever opened it, of administrators, and of its module, roles of
\* which no longer count once over; one whose definition is gone, only of the first two.
ASSUME CasesFailClosed ==
  \A g \in Grants({"administrator", "employee"}, {"platform", "hr"}), at \in Instants, creator \in {"v", "y", NoPerson},
     def \in {"hr", Absent} :
    LET sees(actor) == CanView({g}, actor, creator, def, {"administrator", "employee"}, at)
    IN /\ sees("v") <=> creator = "v" \/ (IsGrantActive(g, at) /\ <<g.role, g.module>> = <<"administrator", "platform">>)
                        \/ (IsGrantActive(g, at) /\ g.module = def)
       /\ sees(NoPerson) => IsGrantActive(g, at)

\* Whoever hears of it by role has the role at that very instant, in whatever module, and
\* naming a team only narrows it to those in the team that day; a team that is gone has
\* nobody.  "Line managers of this team" are its members who hold that role, which the
\* manager of the team need not be: naming the role and naming the relationship differ.
LOCAL Holdings == [person : {"x"}, role : {"line_manager", "director"}, module : {"platform", "hr"},
                   validFrom : {0, 3}, validUntil : {2, Forever}, revoked : BOOLEAN]
LOCAL Memberships == [person : {"x"}, team : {"t", "gone"}, validFrom : 0 .. 1, validTo : {1, 2, Forever}]
LOCAL Teams == [t |-> [manager |-> "y", deputy |-> NoPerson]]
LOCAL Notice(kind, role, team, relation) ==
  [kind |-> kind, role |-> role, team |-> team, policyRef |-> Absent, contextual |-> relation]
LOCAL About == [subject |-> "x", requester |-> NoPerson, team |-> "t"]
ASSUME TeamNarrowsTheRole ==
  \A g \in Holdings, h \in Holdings, m \in Memberships, at \in Instants :
    LET told(n) == ResolveRecipients(n, {g, h}, {m}, Teams, [policy |-> "p", persons |-> {"x"}], About, at)
        all     == told(Notice("role", "line_manager", NoTeam, Absent))
        inTeam  == told(Notice("role", "line_manager", "t", Absent))
        managers == told(Notice("contextual", Absent, NoTeam, "subject_line_manager"))
    IN /\ inTeam \subseteq all
       /\ all # {} <=> HasRole({g, h}, {"line_manager"}, "platform", at) \/ HasRole({g, h}, {"line_manager"}, "hr", at)
       /\ all # {} => (inTeam = all <=> m.team = "t" /\ \E s \in Instants :
             CalendarDay(s) = CalendarDay(at) /\ WithinPeriod(s, m.validFrom * DayLength, m.validTo * DayLength))
       /\ told(Notice("role", "line_manager", "gone", Absent)) = {}
       /\ managers \cap inTeam = {} /\ managers = {"y"}
       /\ told(Notice("contextual", Absent, NoTeam, "requester")) = {}
       /\ told([Notice("policy", Absent, NoTeam, Absent) EXCEPT !.policyRef = "moved"]) = {}

\* A suspicion is mutual, the check on writing and the nightly scan agree from either
\* side, and nothing that is absent on both sides raises one.
LOCAL Attributes == [family : {"f", Absent}, given : {"g", Absent}, born : {"1", "2", Absent}, agencyRef : {"r", "s", Absent}]
ASSUME SuspicionIsMutual ==
  \A a, b \in Attributes :
    /\ MatchDuplicate(a, b) = MatchDuplicate(b, a)
    /\ \A f \in DOMAIN a : a[f] = Absent \/ b[f] = Absent =>
         MatchDuplicate(a, b) = MatchDuplicate([a EXCEPT ![f] = Absent], [b EXCEPT ![f] = Absent])

\* "Never-lose": after the copies every type of flag of either is on the survivor, and
\* merging again copies nothing twice.
LOCAL Flags == [id : 1 .. 2, type : {"a", "b"}]
ASSUME NoFlagIsLost ==
  \A s, l \in SUBSET Flags :
    LET joined == s \cup PlanFlagUnion(s, l)
    IN /\ { f.type : f \in joined } = { f.type : f \in s \cup l }
       /\ PlanFlagUnion(joined, l) = {}

\* From every status active can be reached again, nobody returns to the application
\* once active, and a shell cannot be activated without a review.
LOCAL Step(S) == S \cup UNION { Transitions[s] : s \in S }
LOCAL Reach[S \in SUBSET DOMAIN Transitions] == IF Step(S) = S THEN S ELSE Reach[Step(S)]
LOCAL Application == {"draft_shell", "information_requested", "information_submitted", "pending_review"}
ASSUME NobodyIsStuck ==
  /\ \A s \in DOMAIN Transitions : s \notin Transitions[s] /\ "active" \in Reach[Transitions[s]]
  /\ Reach[{"active"}] \cap Application = {}
  /\ LET without == { s \in DOMAIN Transitions : s # "pending_review" }
     IN \E S \in SUBSET without : "draft_shell" \in S /\ "active" \notin S
          /\ \A s \in S : Transitions[s] \ {"pending_review"} \subseteq S
=============================================================================
