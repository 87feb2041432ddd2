---------------------------- MODULE ApprovalPolicy ----------------------------
(***************************************************************************)
(* Who may decide a request, and whether one is needed at all              *)
(* (domain/src/approvals/policy.ts, delegation.ts, threshold.ts), and who  *)
(* is shown it (routers/platform/approvals.ts: inbox, byId, listBySubject),*)
(* with which warnings (lib/approval-warnings.ts).                         *)
(*                                                                         *)
(* An entry of a policy is a record of a kind, "role" or "designated", and *)
(* a name; members gives the persons behind an entry, in the order they    *)
(* were read.  A claim says by which route a person is an approver, via    *)
(* which entry or whose authority.  The order of the resulting lists is    *)
(* left out: they are functions from persons to claims.                    *)
(***************************************************************************)
LOCAL INSTANCE Integers
LOCAL INSTANCE SequencesExt
LOCAL INSTANCE TLC
LOCAL INSTANCE FiniteSetsExt

SourceRank(source) == CASE source = "policy_role" -> 0 [] source = "designated" -> 1 [] source = "delegation" -> 2

NoClaims == [ p \in {} |-> 0 ]

\* upsert: an equal or stronger claim stays.
Upsert(claims, c) ==
  IF c.person \in DOMAIN claims /\ SourceRank(claims[c.person].source) <= SourceRank(c.source)
  THEN claims ELSE (c.person :> c) @@ claims

UpsertAll(claims, cs) == FoldLeft(Upsert, claims, cs)

\* An entry nobody answers for contributes nobody.
ClaimsOf(entry, members) ==
  LET ps == IF entry \in DOMAIN members THEN members[entry] ELSE <<>>
  IN [ i \in DOMAIN ps |-> [person |-> ps[i], via |-> entry,
                            source |-> IF entry.kind = "role" THEN "policy_role" ELSE "designated"] ]

ExpandDirect(entries, members) ==
  UpsertAll(NoClaims, FlattenSeq([ i \in DOMAIN entries |-> ClaimsOf(entries[i], members) ]))

\* One hop: the holders are those before any delegate was added.
ExpandDelegations(holders, delegations) ==
  LET carried == SelectSeq(delegations, LAMBDA d : d.delegator \in DOMAIN holders)
  IN [ i \in DOMAIN carried |-> [person |-> carried[i].delegate, via |-> carried[i].delegator,
                                 source |-> "delegation"] ]

WithDelegates(claims, delegations) == UpsertAll(claims, ExpandDelegations(claims, delegations))

ExpandApprovalPolicy(policy, members, delegations) ==
  LET notify   == WithDelegates(ExpandDirect(policy.approvers, members), delegations)
      override == WithDelegates(ExpandDirect(policy.overrideRoles, members), delegations)
  IN [notify   |-> notify,
      eligible |-> UpsertAll(notify, SetToSeq({ override[p] : p \in DOMAIN override }))]

IsWithinPeriod(at, from, to) == from <= at /\ at < to

\* AnyType stands for no subject type, Never for no revocation.
AnyType   == "any"
Never == 1000

IsDelegationActive(d, at, subjectType) ==
  /\ d.subjectType \in {AnyType, subjectType}
  /\ IsWithinPeriod(at, d.validFrom, d.validTo)
  /\ at < d.revokedAt

\* assertDelegationValid.
DelegationValid(d, maxDuration) ==
  d.delegate # d.delegator /\ d.validFrom < d.validTo /\ d.validTo - d.validFrom <= maxDuration

\* A rule is always, or compares a field; the context maps fields to numbers, or not.
EvaluateThreshold(rule, context) ==
  CASE rule.op = "always" -> [required |-> TRUE, reason |-> "always"]
    [] rule.op # "always" /\ rule.field \notin DOMAIN context -> [required |-> TRUE, reason |-> "unevaluable"]
    [] OTHER -> LET raw    == context[rule.field]
                    clears == IF rule.op = "gt" THEN raw > rule.value ELSE raw >= rule.value
                IN [required |-> clears,
                    reason   |-> IF clears THEN "above_threshold" ELSE "below_threshold"]
\* resolveApprovalPolicy: a designated source nobody registered is an error, which the
\* reads take for no authority at all.
Resolvable(policy, members) ==
  \A e \in ToSet(policy.approvers) : e.kind = "designated" => e \in DOMAIN members

Authority(policy, members, delegations) ==
  IF Resolvable(policy, members) THEN ExpandApprovalPolicy(policy, members, delegations).eligible ELSE NoClaims

\* byId: what the viewer of a request is told of it.
RequestVisible(authority, viewer, isRequester, oversight) ==
  viewer \in DOMAIN authority \/ isRequester \/ oversight
ViewerCanDecide(authority, viewer, status) == viewer \in DOMAIN authority /\ status = "pending"
ViewerDelegation(authority, viewer) ==
  IF viewer \in DOMAIN authority /\ authority[viewer].source = "delegation" THEN authority[viewer].via ELSE "null"

\* listBySubject: one's own requests, or all.
SubjectListed(authority, viewer, isRequester, oversight) ==
  isRequester \/ viewer \in DOMAIN authority \/ oversight

\* eligibilitySql: a role, the cover of somebody who has it, or a designated source.
InRole(entries, members, p) == \E e \in entries : p \in ToSet(members[e])
InboxShows(policy, members, delegations, viewer, includeOverride) ==
  LET ofKind(kind) == { e \in ToSet(policy.approvers) : e.kind = kind }
      acting == ofKind("role") \cup (IF includeOverride THEN ToSet(policy.overrideRoles) ELSE {})
  IN /\ Resolvable(policy, members)
     /\ \/ InRole(acting, members, viewer)
        \/ \E d \in ToSet(delegations) : d.delegate = viewer /\ InRole(acting, members, d.delegator)
        \/ InRole(ofKind("designated"), members, viewer)

ViaOverride(policy, members, delegations, viewer) == ~InboxShows(policy, members, delegations, viewer, FALSE)

\* Of the delegations to the viewer, in the order of valid_from, the last.
ViaDelegation(delegations, viewer) ==
  LET to == SelectSeq(delegations, LAMBDA d : d.delegate = viewer)
  IN IF to = <<>> THEN "null" ELSE Last(to).delegator
-----------------------------------------------------------------------------
(***************************************************************************)
(* ApprovalPolicy against its meaning: three persons, one approving role,  *)
(* one designated resolver, one resolver nobody registered and one         *)
(* override role, any members of each, and up to two delegations.          *)
(***************************************************************************)
LOCAL Approvers == {"x", "y", "z"}
LOCAL Role       == [kind |-> "role", name |-> "approving"]
LOCAL Resolver   == [kind |-> "designated", name |-> "named"]
LOCAL Unknown    == [kind |-> "designated", name |-> "unregistered"]
LOCAL Override   == [kind |-> "role", name |-> "override"]
LOCAL Policies ==
  [approvers : {<<Role, Resolver>>, <<Resolver, Role>>, <<Unknown, Resolver>>}, overrideRoles : {<<>>, <<Override>>}]
LOCAL Members == [{Role, Resolver, Override} -> { SetToSeq(ps) : ps \in SUBSET Approvers }]
LOCAL Cover(from, to) == [delegator |-> from, delegate |-> to]
LOCAL Covers ==
  {<<>>, <<Cover("x", "y")>>, <<Cover("x", "y"), Cover("y", "z")>>, <<Cover("y", "z"), Cover("x", "y")>>,
   <<Cover("x", "y"), Cover("y", "x")>>, <<Cover("x", "z"), Cover("y", "z")>>}

\* The routes by which a person is an approver of these entries, as the policy means
\* them: named directly, or covering for somebody named directly.
LOCAL Named(es, ms, p, kind) ==
  \E i \in DOMAIN es : es[i].kind = kind /\ es[i] \in DOMAIN ms /\ p \in ToSet(ms[es[i]])
LOCAL Direct(es, ms, p) == \E kind \in {"role", "designated"} : Named(es, ms, p, kind)
LOCAL Routes(es, ms, ds, p) ==
  { s \in {"policy_role", "designated", "delegation"} :
      CASE s = "policy_role" -> Named(es, ms, p, "role")
        [] s = "designated"  -> Named(es, ms, p, "designated")
        [] s = "delegation"  -> \E i \in DOMAIN ds : ds[i].delegate = p /\ Direct(es, ms, ds[i].delegator) }
LOCAL Strongest(claims, p, routes) ==
  IF routes = {} THEN p \notin DOMAIN claims
  ELSE p \in DOMAIN claims /\ SourceRank(claims[p].source) = Min({ SourceRank(s) : s \in routes })

\* Whoever is named or covers for somebody named is asked, whoever may override may
\* decide unasked, nobody else; delegation reaches one hop and no further, and of
\* several routes the strongest is recorded.
ASSUME ExpansionIsWhatThePolicyMeans ==
  \A po \in Policies, ms \in Members, ds \in Covers :
    LET e == ExpandApprovalPolicy(po, ms, ds)
    IN \A p \in Approvers :
         LET asked == Routes(po.approvers, ms, ds, p)
             over  == Routes(po.overrideRoles, ms, ds, p)
         IN Strongest(e.notify, p, asked) /\ Strongest(e.eligible, p, asked \cup over)

\* A decision under delegation is on behalf of somebody who could have taken it.
ASSUME CoverCarriesAuthority ==
  \A po \in Policies, ms \in Members, ds \in Covers :
    LET e == ExpandApprovalPolicy(po, ms, ds).eligible
    IN \A p \in DOMAIN e : e[p].source = "delegation" =>
         Direct(po.approvers, ms, e[p].via) \/ Direct(po.overrideRoles, ms, e[p].via)

\* What is in the inbox may be decided, and what may be decided is in the inbox, for all
\* but one route: who covers for somebody that a designated source names may decide, and is
\* never shown the request.  A source nobody registered takes the requests out of every
\* inbox, and the authority over them with it.
LOCAL CoversDesignated(po, ms, ds, p) ==
  \E d \in ToSet(ds) : d.delegate = p /\ Named(po.approvers, ms, d.delegator, "designated")
ASSUME InboxIsWhatMayBeDecided ==
  /\ \A po \in Policies, ms \in Members, ds \in Covers, p \in Approvers :
       LET may   == Authority(po, ms, ds)
           shown == InboxShows(po, ms, ds, p, TRUE)
       IN /\ shown => ViewerCanDecide(may, p, "pending") /\ RequestVisible(may, p, FALSE, FALSE)
          /\ p \in DOMAIN may /\ ~shown => CoversDesignated(po, ms, ds, p) /\ may[p].source = "delegation"
          /\ Unknown \in ToSet(po.approvers) => ~shown /\ p \notin DOMAIN may
          /\ SubjectListed(may, p, FALSE, FALSE) <=> RequestVisible(may, p, FALSE, FALSE)
  /\ \E po \in Policies, ms \in Members, ds \in Covers, p \in Approvers :
       p \in DOMAIN Authority(po, ms, ds) /\ ~InboxShows(po, ms, ds, p, TRUE)

\* Whoever is shown a request as an override was not asked to decide it, and whoever is
\* shown it otherwise was, designated cover again excepted.
ASSUME OverrideIsMarked ==
  \A po \in Policies, ms \in Members, ds \in Covers, p \in Approvers :
    InboxShows(po, ms, ds, p, TRUE) =>
      LET asked == p \in DOMAIN ExpandApprovalPolicy(po, ms, ds).notify
      IN IF ViaOverride(po, ms, ds, p) THEN asked => CoversDesignated(po, ms, ds, p) ELSE asked

\* "So the badge on a row and the reason it is there cannot disagree": a row that is there
\* by delegation says so; but it names any delegation to the viewer, though another one
\* carries the authority, or none does, as the viewer decides in a role of their own.
ASSUME DelegationIsMarked ==
  /\ \A po \in Policies, ms \in Members, ds \in Covers, p \in Approvers :
       ViewerDelegation(Authority(po, ms, ds), p) # "null" => ViaDelegation(ds, p) # "null"
  /\ \E po \in Policies, ms \in Members, ds \in Covers, p \in Approvers :
       InboxShows(po, ms, ds, p, TRUE) /\ ViaDelegation(ds, p) # ViewerDelegation(Authority(po, ms, ds), p)
  /\ \E po \in Policies, ms \in Members, ds \in Covers, p \in Approvers :
       LET by == ViewerDelegation(Authority(po, ms, ds), p)
       IN InboxShows(po, ms, ds, p, TRUE) /\ by # "null" /\ ViaDelegation(ds, p) \notin {by, "null"}

LOCAL Windows == [delegator : {"x"}, delegate : Approvers, subjectType : {AnyType, "leave"},
                  validFrom : 0 .. 4, validTo : 0 .. 4, revokedAt : (0 .. 4) \cup {Never}]

\* "A delegation revoked at noon still authorised the decision taken at eleven": what
\* a revocation changes lies after it; and a delegation that was accepted is in force
\* at some instant unless revoked before it begins.
ASSUME RevocationDoesNotReachBack ==
  \A d \in Windows, at \in 0 .. 4, t \in {"leave", "travel"} :
    /\ IsDelegationActive([d EXCEPT !.revokedAt = Never], at, t) /\ at < d.revokedAt
         <=> IsDelegationActive(d, at, t)
    /\ DelegationValid(d, 4) /\ d.revokedAt > d.validFrom => IsDelegationActive(d, d.validFrom, "leave")

\* A threshold that cannot be evaluated never lets a request through unapproved, and
\* a higher amount never needs less approval than a lower one.
ASSUME ThresholdErrsTowardsAHuman ==
  \A op \in {"always", "gt", "gte"}, v \in 0 .. 2, a \in 0 .. 3, b \in 0 .. 3 :
    LET rule == [op |-> op, field |-> "amount", value |-> v]
    IN /\ EvaluateThreshold(rule, "other" :> a).required
       /\ a <= b /\ EvaluateThreshold(rule, "amount" :> a).required => EvaluateThreshold(rule, "amount" :> b).required
       /\ ~EvaluateThreshold(rule, "amount" :> a).required => a <= v


\* collectWarnings: providers are records of a name, a type of subject and what they answer,
\* "late" standing for an answer that did not come within WARNING_PROVIDER_TIMEOUT_MS.
WarningsUnavailable(name) == [provider |-> name, code |-> "warnings_unavailable"]
CollectWarnings(providers, subjectType) ==
  UNION { IF p.answer \in {{"failed"}, {"late"}} THEN {WarningsUnavailable(p.name)}
          ELSE { [provider |-> p.name, code |-> c] : c \in p.answer } : p \in { q \in providers : q.subjectType = subjectType } }

\* registerWarningProvider: one provider of a name for a type of subject.
MayRegister(providers, p) == \A q \in providers : <<q.subjectType, q.name>> # <<p.subjectType, p.name>>

\* One provider that fails or is late leaves what the others warn of as it is, and is named
\* by the one note it leaves; a type of subject hears of no other's providers.
ASSUME WarningsAreIsolated ==
  LET provider(names, answers) == [name : names, subjectType : {"leave", "travel"}, answer : answers]
  IN \A p \in provider({"x", "y"}, {{}, {"clash"}, {"clash", "limit"}}), q \in provider({"y"}, {{}, {"clash"}, {"failed"}, {"late"}}) :
       MayRegister({q}, p) =>
         LET with  == CollectWarnings({p, q}, p.subjectType)
             alone == CollectWarnings({p}, p.subjectType)
             from  == { w.provider : w \in with \ alone }
         IN /\ { w \in with : w.provider = p.name /\ p.name # q.name } \subseteq alone /\ alone \subseteq with
            /\ alone = { [provider |-> p.name, code |-> c] : c \in p.answer }
            /\ q.subjectType # p.subjectType => with = alone
            /\ q.subjectType = p.subjectType /\ q.answer \in {{"failed"}, {"late"}} => with \ alone = {WarningsUnavailable(q.name)}
            /\ from \subseteq {q.name}
=============================================================================
