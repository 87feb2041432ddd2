# cdf-connect: the verified core

TLA+ models of the parts of cdf-connect that hold state, the TLC configurations
that check them on small instances, and TLAPS proofs of the results that should
hold for every size. File and line references are to `src/` of the repository.

Contents: [inventory](#inventory), [modules](#modules),
[the models against the code](#the-models-against-the-code), [runs](#runs),
[fairness](#fairness), [proofs](#proofs), [what the code does not
keep](#what-the-code-does-not-keep), [limits](#what-is-not-modelled), [plan](#plan).

## Inventory

One PostgreSQL database holds all state. The API (`apps/api`, tRPC routers in
`packages/trpc`) and the worker (`apps/worker`, one to five replicas) share the
same libraries and talk to each other only through the database and through an
Azure Service Bus queue, `effects`. Transactions run at READ COMMITTED.

| Component | State it keeps | Operations | Meets |
|---|---|---|---|
| Workflow runtime (`packages/workflow`) | `workflow_instance`, `workflow_transition` | start, transition, terminal sweep | timers, journal, guards |
| Workflow definitions (`packages/domain/src/workflow`) | registry in memory, versioned | `defineWorkflow`, `evaluateTransition` | the runtime pins a version per case |
| Scheduled timers, scheduler job | `scheduled_action` | schedule, cancel, reschedule, drain (cron), mark executed | queue; timers carry an effect |
| Journal and outbox relay (`packages/db`, worker) | `domain_event.published_at` | append, claim a batch, send effects, publish, stamp | queue and topic |
| Effect consumers (worker, `*-effects.ts`) | `event_consumption` | receive, claim, act, complete, abandon, dead-letter | every library below |
| Service bus (external) | messages, locks, duplicate-detection window | send, receive, complete, abandon, dead-letter | relay, scheduler, consumers |
| Task engine (`tasks.ts`) | `task`, `task_dependency` | raise a list, complete, cancel, open a gate, unlock, recompute due dates, claim, release | reminders, journal |
| Reminders (`notify.ts`, `notify-effects.ts`) | rows of `scheduled_action` | schedule, chase, stop, cancel | tasks, approvals, documents |
| Notification dispatch (`notify-effects.ts`) | `notification`, `notification_delivery` | resolve, deliver, retry, declare dead | channels, timers |
| Approvals (`approvals.ts`, `approval-effects.ts`) | `approval_request`, `approval_decision`, delegations | submit, open, decide, cancel, delegate, revoke | decides by moving the case |
| Documents (`documents.ts`, `document-effects.ts`) | `document`, `signature_evidence`, `template` | issue, view, sign, complete, respond, cancel, render, file, retry | SharePoint, reminders |
| Configuration (`resolve.ts`, `config.ts`) | `config_entry`, effective-dated | set, stage, reset, resolve as-at | read by everything |
| Persons and access (`identity.ts`, expiry sweep) | `person`, users, sessions, merges, grants | merge, unmerge, re-engage, extend, convert, invite, sweep | read by every guard |
| Teams (`team.ts`, `effective-dating.ts`) | `team`, memberships over days | update, archive, add, end, correct | scopes, approvals |
| Lookups, users | a table each | create, update, retire | forms |
| API, web, mobile, adapters | none of their own | HTTP, UI, mail, SMS, storage | |

What makes this hard, and where:

* **Concurrency.** Several transactions on one case, task, person or team; what
  one read before another committed is stale at READ COMMITTED unless locked.
  Teams, lookups and templates are read without a lock and written afterwards.
* **At-least-once delivery.** Relay and scheduler send first and stamp
  afterwards, inside one transaction. A message can therefore be repeated, be
  received before the row that caused it says so, or outlive a rolled-back run.
  The broker drops repeats, but only for ten minutes.
* **Crashes** between any two commits; handlers that overrun their message lock
  and go on beside the worker that received the message next.
* **Ordering.** Messages of successive events arrive in any order: an
  `approval.cancel` may overtake the `approval.open` it is meant for.
* **A series with no row of its own.** A reminder exists only as its next timer.
* **Swallowed database errors.** A unique violation that is caught leaves the
  PostgreSQL transaction aborted.
* **Time that decides.** Windows of grants, delegations, configuration and
  memberships; due dates over changes of daylight saving time; cursors cut to
  milliseconds where the order is by microseconds.

What makes each component correct: a case follows one pinned definition and
closes once; a timer moves it at most once and never from a state it has left;
an effect happens at most once and none is lost once its event is published; a
task is open exactly when what it waits on is over; a task is chased by one
series, until it is finished and hardly after; a request gets one verdict, and
an approval and the move it causes are one fact; a read of the settled past of a
configuration key never changes; a notice is sent, suppressed or declared dead,
and no failure is forgotten; a signature stands for the bytes it was given, and
what is filed is what was hashed; one merge supersedes a person, and whoever is
ended holds only what was given since; the journal of a team adds up to its table.
`PROJECT.json` lists the hazards at their lines, covered or not.

## Modules

| Module | What it is |
|---|---|
| `WorkflowDefinition` | definitions, `defineWorkflow`'s acceptance rules, transition lookup |
| `WorkflowRuntime` | cases, transitions, workflow timers, scheduler, workers |
| `CaseLifecycle` | abstract: a case moves along one pinned definition and closes once |
| `ServiceBus` | the queue: slots, locks, delivery count, duplicate detection |
| `OutboxRelay` | journal rows, relay ticks, consumers with a consumption ledger |
| `EffectLedger` | abstract: an effect happens at most once, and only for a recorded fact |
| `TaskEngine` | tasks, edges, gates, and the statements of concurrent transactions |
| `TaskBoard` | abstract: a task is open exactly when what it waits on is over |
| `ReminderSeries` | the chase of one task: timers, scheduler, handler, task engine |
| `ApprovalEngine` | requests, decisions, the cases they are about, the open and cancel effects |
| `SignOff` | abstract: a request is opened, settled once, and an approval moves its case |
| `ConfigHistory` | the rows of one key, racing writers, reads as at any instant |
| `Timeline` | abstract: a write replaces what applies from an instant on and nothing before |
| `NotificationDispatch` | deliveries of one notification, dispatch and retry, crashes, lost locks |
| `DocumentEngine` | documents, signatures, rendering, staging, filing, attempts |
| `IssuedDocuments` | abstract: documents answered in order, a signature that binds for good |
| `PersonAccess` | persons, logins, roles, merges, overlapping calls, the expiry sweep |
| `TeamRoster` | teams, memberships over days, overlapping calls, the journal |
| `TaskGraph`, `ReminderCalendar`, `ApprovalPolicy`, `PersonRules`, `DocumentRules`, `Lists` | pure algorithms, each with its meaning as an ASSUME over bounded inputs |
| `MC*` | instances for TLC (`NotificationDispatch` is checked as it stands) |
| `*Proofs` | TLAPS proofs of the module they are named after; `EffectiveDatingProofs` of `ConfigHistory` and `TeamRoster`, `TimedEffectsProofs` of `ReminderSeries` and `NotificationDispatch` |

`ServiceBus` is used by `OutboxRelay` and `ReminderSeries`; `WorkflowRuntime`
keeps a simpler queue (a set of messages that stay until completed, which any
number of workers may receive, with no delivery limit), so that cases, timers
and two workers stay within reach, and so do the later engines, whose handlers
matter more than their queue. Each of the six abstract specifications is the
PROPERTY of a run of the module it abstracts, by INSTANCE. Operators headed
"Mutant" are deliberate mistakes; no specification uses them, each exists to show
that some property would notice.

The pure modules are evaluated by the run whose MC module extends them:
`TaskGraph` with `MCTaskEngine`, `ReminderCalendar` with `MCReminderSeries`,
`ApprovalPolicy` with `MCApprovalEngine`, `PersonRules` with `MCPersonAccess`,
`DocumentRules` with `MCDocumentEngine`, `Lists` with `MCTeamRoster`.

## The models against the code

**WorkflowRuntime.** `Begin` is `executeTransitionIn` up to its first write
(row lock, expected state, lookup, policy, guards); `Commit` is the rest and the
commit. Refusals write nothing; for a person they are not taking a step, for a
worker they are `WorkerRefused`, because the handler then stamps its timer.
`SchedulerSend` locks and sends, `SchedulerStamp` stamps and commits,
`SchedulerRollback` loses the stamp and not the messages. `Mark` and `Ack` are
the separate transactions that follow a handled timer. `Commit` waits while the
scheduler holds a row its terminal sweep must cancel. The unique index on the
active subject is a guard of `Start`. The sweep's due times are a flag (`due`);
`RescheduleTimer` clears it.

**OutboxRelay.** `row` is `domain_event` and its `published_at`. `Claim`,
`SendEffects`, `Publish`, `Stamp` are the awaits of one relay tick, `RelayFails`
its rollback at any of them. `recordConsumptionOnce` waits for another open
transaction that has inserted the same key (`Unclaimed`), and its key is the
event and the effect's *name* (`IdOf`), as is the MessageId.

**TaskEngine.** `satisfyAndUnlock` is four actions because it is four
statements, each with its own snapshot: `Match`, `Evaluate`, `Stamp`, `Unlock`.
`requireTask` locks exclusively; inserting an edge takes a key-share lock on the
task it refers to (`InsertTask`). Reads happen where the code reads: the open
gates once at the start of a raise, the statuses of existing tasks per task.
`Abort` may strike anywhere: an error, a lost connection, a deadlock victim.
The history variable `overlapped` notes when two transactions have been open at once.

**ReminderSeries.** The three transactions that meet over one timer row: the
scheduler's (`LockDue`, `Send`, `Stamp`), the handler's (`Claim`, then
`StopSeries`, `Chase` or `ChaseRefused`) and the task engine's (`TouchTask`,
then `FinishTask` or `Recompute`). `Claim` returns without doing anything when
the row is not `enqueued`, as `markScheduledActionExecuted` does. A message may
be received as soon as it was sent, before its stamp or after its run has rolled
back; the history variable `overtaken` notes those taken for duplicates. When an
occurrence is due is left open, so no property depends on cadences; what the
instants are is `ReminderCalendar`.

**ApprovalEngine.** A case moves in one transaction that also records the
effects `approval.open` and `approval.cancel`; these are handled in any order,
each past the consumption ledger. `Open` of a decision locks the request's row
and resolves what the policy asks of whom, then `Decide` writes the decision,
settles the request, cancels its reminder and moves the case, or `Abort` rolls
all of it back: between the two, roles and cover may change. Of the chase of a
request (`ReminderSeries` has the detail) the engine keeps where its current
occurrence stands: in its row, where a cancel finds it and the terminal sweep
only if it is the first, out on the queue, in the hands of a worker that has read
the request (`ChaseRead` to `ChaseCommit`), or lost. Submitting, withdrawing
and a person's own move of the case are one guarded write each. The windows of
grants and delegations are left to `ApprovalPolicy`, which has the functions.

**ConfigHistory.** A writer's transaction takes its `now()` when it begins
(`Begin`), finds what applies (`Look`), locks (`Lock`), and then writes (`Set`,
`Reset`) or meets a constraint (`Fail`). Reads as at an instant are remembered
with their answer, so that reading again can be compared. Rows are named by
their version, which the unique constraint makes a name.

**NotificationDispatch.** The statements of `notification.dispatch` and
`notification.retry`, each with its own step where another handler may come
between: recipients are resolved anew by each dispatch, an attempt is sent or
not and its outcome written afterwards, a retry stamps its timer before the
transaction that sends. A worker may die or outlive its message lock at any
statement. How long a retry waits is left open.

**DocumentEngine.** A call of a person is one action, because it runs under the
document's row lock; a worker's rendering, staging,
binding of the hash, uploading and marking are apart. Bytes are nondeterministic:
two renderings of a document may differ, as the renderer promises nothing else.

**PersonAccess.** A call is `Ask`, which reads and checks, and `Commit`, one step
for the transaction in which it writes what it decided. What holds in between is
what the database enforces, and that is a guard of `Commit` (`GiveUp` otherwise).
The sweep reads its candidates (`SweepRead`) and then ends one after the other
(`SweepOne`), rechecking what the code rechecks; `SweepDies` at any point.

**TeamRoster.** Every call reads without a lock and then writes; the exclusion
and check constraints of the table are `Fits`. `told` replays the journal into a
second table with the deltas the events carry.

**Pure modules.** Their definitions are the functions of the code over small
inputs: `TaskGraph` (cycle check, the cycle that is reported, acceptance of a
list, claims), `ReminderCalendar` (zoned instants, occurrences, due dates,
retry limits), `ApprovalPolicy` (expansion, cover, inbox, thresholds, warnings),
`PersonRules` (grants, scopes, field classes, duplicates, flags, statuses),
`DocumentRules` (merging, modes, template versions, categories, the Graph
client's retries, upload chunks, content and its journalling, evidence packs),
`Lists` (cursors, badges, dashboards, configuration screens, lookups).

## Runs

All twelve hold.

| Run | Asks | Instance and bounds | States |
|---|---|---|---|
| `workflow_runtime` | Do racing callers, workers and a deploy keep every case on its pinned definition, do early, late and repeated timer messages move it at most once, and is an overdue timer always taken? | 2 cases of one subject, 2 timers, 1 user, 2 workers, 3 moves, 1 crash, 2 definition versions | 244k |
| `outbox` | No published event without its effects; does every fact settle; is `EffectLedger` implemented? | 1 event with 2 effects of which one nobody handles, 2 relays, 2 workers, 1 failure, 2 deliveries, 2 copies | 566k |
| `tasks` | What holds whatever overlaps, and what until two transactions overlap, `TaskBoard` included | 5 tasks, 1 gate, 3 lists (one cyclic), 2 connections, aborts anywhere | 49k |
| `reminders` | One series; every timer settles | 3 rows, 2 occurrences, 2 workers, 2 failures, 2 deliveries, 3 copies | 289k |
| `reminders_race` | A series is lost in one way only; at most one chase after completion | 4 rows, 2 occurrences, 2 workers, 1 moved deadline, 1 failure, 2 deliveries, 2 copies | 1.5M |
| `approvals` | One verdict each; are an approval and its move one fact; who is chased; is `SignOff` implemented? | 2 cases of one subject, 2 requests of which one is chased, a role holder and who covers for them, 2 calls, 3 moves | 612k |
| `config` | Does a settled read reproduce; is `Timeline` implemented? | 2 writers, clock up to 3, 3 writes, 1 remembered read | 93k |
| `notifications` | Is every failure kept, every send and journal row made once, every outcome final, every delivery settled? | 2 recipients, 2 workers, 2 attempts, 3 timers, 1 crash or lost lock | 950k |
| `documents` | Is `IssuedDocuments` implemented? | 2 documents of any of 5 modes, in order or apart, 1 worker | 223k |
| `document_filing` | Does a signature stand for the bytes kept, is what was hashed filed, does every filing settle? | 1 document, 2 workers, 2 renderings, 2 attempts, 1 retry by hand, 2 crashes or lost locks | 811k |
| `access` | Do merges and their reversals stay consistent, do the ended stay ended, is expired access ended? | 3 persons (1 external), 2 logins, 1 role, 4 calls, 2 at a time, 1 worker, 1 sweep that dies | 733k |
| `teams` | Do the events add up to the tables, is an archived team closed? | 1 team, 2 persons, 2 memberships, 2 callers, 3 days, 4 calls | 283k |

What each property says is written above it in its module. Together they show:

* *Cases and timers*: `RefinesCaseLifecycle`; `NoTimerOutlivesItsCase` (a timer
  the closing transition itself creates is excepted, as in the code);
  `StaleTimerNeverMovesCase`, `TimerMovesCaseOnce` and, as liveness,
  `DueTimerMovesCase`.
* *Effects*: `PublishedEffectsAreKept`, `EveryFactSettles`, `ImplementsEffectLedger`.
* *Tasks*: `OpenMeansFree` and `UnblockedOnce` under any interleaving;
  `InTurnTasksOpen`, `InTurnNothingWaitsOnThePast`, `InTurnSomethingCanStart` and
  `InTurnImplementsTaskBoard` until two transactions overlap.
* *Chases*: `OneSeries`, `SeriesAlive`, `EveryTimerSettles`, `AtMostOneAfterCompletion`.
* *Approvals*: `ApprovedIffMoved`, `ChasedWhileWaiting`, `OnlyOvertakingOutlives`
  (a request outlives its case's cancel only if that cancel overtook it).
* *Configuration*: `SettledReadsReproduce`, `ImplementsTimeline`.
* *Notifications*: `FailureNeverSilent` (but for the causes it names),
  `SentOnceUncut` and `JournalledOnce` where handlers do not overlap,
  `OutcomesFinal`, `EveryDeliverySettles`.
* *Documents*: `SignatureStands`, `FiledAsHashed` (overlapping handlers and
  uploads excepted), `FilingNeverSilent`, `EveryFilingSettles`.
* *Persons*: `SupersededByOneMerge`, `MergesUnwind`, `EndedStaysEnded`, `OverdueIsEnded`.
* *Teams*: `JournalIsTheHistory`, `ArchivedTeamsAreClosed`, both naming what a
  stale call may do to them.

The ASSUMEs TLC evaluates with these runs say of the functions:

* `TaskGraph`: Kahn's algorithm finds exactly the cycles and reports one
  (`KahnFindsCycles`, `ReportedCycleIsOne`), for which both halves of the check
  are needed (`HalvesDoNotSuffice`); an accepted list can be worked off
  (`DefinedListsCanBeWorkedOff`); claims change who, never what (`ClaimsAreMetadata`).
* `ReminderCalendar`: `ZonedInstantIsRight`, `ShiftKeepsTheClock`,
  `BacklogCollapses`, `ValvesAgree`, `DueDateAndReminderAgree`, `SkippedHourMovesTheSeries`.
* `ApprovalPolicy`: `ExpansionIsWhatThePolicyMeans`, `CoverCarriesAuthority`,
  `InboxIsWhatMayBeDecided`, `OverrideIsMarked`, `DelegationIsMarked`,
  `RevocationDoesNotReachBack`, `ThresholdErrsTowardsAHuman`, `WarningsAreIsolated`.
* `PersonRules`: `OverlapIsACommonInstant`, `GrantStateIsEnforced`,
  `ScopeNeverWiderThanReach`, `ScopesEndButDoNotNest`, `WindowsDoNotMakeRoom`,
  `RestoredGrantsAreInForce`, `FieldsFollowTheRole`, `CasesFailClosed`,
  `TeamNarrowsTheRole`, `SuspicionIsMutual`, `NoFlagIsLost`, `NobodyIsStuck`.
* `DocumentRules`: `AcceptedLettersAreWhole`, `ValuesPullNothingIn`,
  `UndeclaredIsRefused`, `OneMeaningOfDone`, `OneWayToAnswer`,
  `OnlyNoticesGetStuck`, `OrderedGroupsFinish`, `PublishedTextStands`,
  `OneCurrentVersion`, `CategoriesAreDenied`, `DeletedCategoriesFollowTheOthers`,
  `ThrottlingIsRespected`, `ChunksTileTheFile`, `PacksClaimNoMore`, `JournalFollowsTheRules`.
* `Lists`: `PagesAreTheTable`, `StayingRowsAreReadOnce`, `MovingRowsAreNot`,
  `DateCursorsAreNotExact`, `ScreensAreTwoReads`, `UnchangedKeysComeLast`,
  `BadgeCountsThePages`, `UnsentCopiesAreNeverRead`, `DashboardIsTheList`,
  `BottlenecksAreWhatHolds`, `CodesMeanOneThing`, `OverlappingEditsUndo`.

**Why the bounds are enough.** Two transactions or two workers are what each
race needs, and row locks serialise a third; a merge needs a third person for
chains, and a sweep needs one worker because the cron job is one. Three moves let
a timer be created, go stale and be superseded; a sign-off makes two, and the
third would be a move out of a closed case. Of two requests one is chased, which
may be standalone or of either case. One crash already separates any two commits; reminders and
filing allow two, where the second could meet the retry of the first. Two
deliveries let a message survive one failure and reach the dead-letter queue by
a second. Two copies of a message are what a resend after the window makes, and
a third in `reminders` lets the two failures each cost one. Two
attempts are a first and a last. Two occurrences give a series a first, a last
and a step between. Three instants are a before, a now and a later for staged
changes, and three days do the same for memberships. Four calls are two
overlapping pairs: enough for a merge and a reversal to meet a stale third.

The bounds are constants named in the modules, and guards use them only to stop
new failures, moves, rows, calls or recomputes, never to stop a step already
begun, with these exceptions: a relay or scheduler waits while the queue has no
room for one more copy; a chase or a moved deadline waits for a free row; a case
at `MaxMoves` takes no further transition, and one without a free timer neither
(`Overdue` excludes both); a retry of a notice with no timer left is excepted
from `EveryDeliverySettles` (`OutOfTimers`). The live runs have a row and a copy
for every send their failures allow. Larger interplay of batches and relays in
the outbox rests on the theorems. Symmetry is used only in runs without
liveness; the refinements checked under it are pure safety. Deadlock is checked
in `approvals` and `config`; elsewhere it is not, because those systems do stop:
every bounded behaviour ends with nothing to do.

## Fairness

Liveness is claimed only under weak fairness of

* relay loops and receivers, which run as loops in every worker replica
  (`relay/outbox-relay.ts`, `registry.ts`; the minimum replica count is one):
  the receivers of `OutboxRelay`, `ReminderSeries` and `WorkflowRuntime`,
  `Start` and `Handle` of `NotificationDispatch`, `Handle` of `DocumentEngine`;
* the scheduler, a cron job every five minutes (`SchedulerSend`,
  `SchedulerStamp`, `Schedule`), and the daily sweep (`SweepRead`, `SweepOne`).
  A sweep that dies runs again the next day;
* ends of transactions already begun, those of people included;
* the expiry of a message lock whose holder has died, which the broker
  guarantees. The expiry of a lock still in use is possible but never required.

Failures are bounded, which is the usual assumption that they do not recur for
ever. Nothing is assumed of people: nobody must complete a task, take a
transition, sign, decide or move a deadline. Time is not assumed to make
anything due, except that in `DueTimerMovesCase` a timer *is* due.

## Proofs

Everything below is proved for every value of the constants allowed by the named
assumptions of the modules, which say only that bounds are numbers, maps have
their types, null values are not values, and definitions are ones
`defineWorkflow` accepts. Every proof module begins with `TypeCorrect`, the type
invariant, which is not repeated here.

| Theorem | Statement | Inductive invariant, and why it is needed |
|---|---|---|
| `WorkflowRuntimeProofs!HistoryAlwaysPath`, `ClosedAlwaysClosed` | `HistoryIsPath`, `ClosedCasesStayClosed` | an open transaction read the *current* state and is alone on its case: the row lock, as a fact about two transactions. Without it `Commit` could append from a state already left |
| `RuntimeImplementsLifecycle` | implements `CaseLifecycle` | only `Start` and `Commit` change a case, and the invariant makes each an abstract step |
| `AlwaysSwept` | `NoTimerOutlivesItsCase` | whatever a scheduler run holds when the sweep passes is a row the sweep waits for; a rolled-back run gives it back |
| `TimersKeepTheirOrder` | `TimerLifecycle` | |
| `StaleNeverMoves`, `MovesOnce` | `StaleTimerNeverMovesCase`, `TimerMovesCaseOnce`, assuming `NeverReturns` | `VisitInv` ties each timer to the visit it was created in and each move to a rising rank of states: `expectedState` compares states, and names the visit only where none comes back |
| `OverdueAlwaysInReach` | every timer that is `Overdue` is due to the scheduler or has a message on the queue: the safety under `DueTimerMovesCase`, without fairness | `ReachInv`: ripeness (the case waits where the timer found it, with a move the timer may make) ends and never begins, a worker is done with a timer only when it is not ripe, and what was sent and is ripe still has its message |
| `OutboxRelayProofs!EffectAlwaysAtMostOnce` | `EffectAtMostOnce` | two handlers are never acting under one key, and one acts only on an unclaimed key whose effects have not happened |
| `EffectsAlwaysKept` | `PublishedEffectsAreKept`, assuming `OneNamePerEvent` | whatever is in the duplicate-detection window has been kept, and a tick past sending has its batch kept; a message leaves the broker only from a handler whose claim is in the ledger |
| `OutboxImplementsLedger` | implements `EffectLedger` | a message in the queue comes from a recorded row |
| `TaskEngineProofs!OpenAlwaysFree`, `AnnouncedOnce`, `StatusAlwaysMoves` | `OpenMeansFree`, `UnblockedOnce`, `StatusMachine` | what an open transaction will write still stands on what it read: the rows it locked have not changed, and edges are only ever satisfied, so a task freed when it was evaluated is still free at the commit |
| `AlwaysInTurnOpen`, `AlwaysInTurnCurrent`, `AlwaysSomeCanStart` | `InTurnTasksOpen`, `InTurnNothingWaitsOnThePast`, `InTurnSomethingCanStart` | `TurnInv`: until two transactions overlap, edges tell exactly what is over, the one open transaction reads or has written every task that waits on its blocker alone, and the raised tasks have no cycle; so of the blocked tasks one waits on none of the others |
| `TaskBoardImplemented` | `InTurnImplementsTaskBoard` | from `TurnInv`: after a commit every unfinished task is open exactly when all its edges are stamped, which is where `TaskBoard` settles it |
| `LoneTasksOpen` | `SatisfiedTasksOpen`, assuming `OneBlockerEach` | the lost unlock needs two blockers of one task: with one blocker each the transaction that stamps the edge opens the task |
| `TimedEffectsProofs!AlwaysAtMostOneAfter` | `AtMostOneAfterCompletion` | the *frontier*: the keys taken are 1..n and no timer is beyond occurrence n + 1, so of all handlers that read the task before it was finished only one can still take a key |
| `AlwaysOneSeries` | `OneSeries` | until the deadline is moved, at most one handler is chasing, and while it does its own row is the only one to come |
| `AlwaysSeriesAlive` | `SeriesAlive` | `Alive`: a timer that is enqueued, or sent and not yet stamped, has a message, a dead-lettered one included, unless that overtook the stamp; and unless the series is used up one timer or another is to come |
| `TimedEffectsProofs!AlwaysNeverSilent` | `FailureNeverSilent` | `Pursuit`: an outstanding delivery is in the hands of a handler, awaits the dispatch or a retry timer, or has been noted as dropped. A handler lets go of a delivery only with its outcome or in the step that leaves a timer |
| `AlwaysSentOnce`, `AlwaysJournalledOnce`, `AlwaysOutcomesFinal` | `SentOnceUncut`, `JournalledOnce`, `OutcomesFinal` | `InTurn` and `Current`: until a lock is lost every handler holds its own, one at most is past its claim, and the rows still say what it read. What landed is then in the row or in the hand of who sent it |
| `ApprovalEngineProofs!AlwaysOneDecision` | `OneDecision` | a decision in progress holds a pending request, alone; nobody else writes a row it locked |
| `AlwaysApprovedIffMoved` | `ApprovedIffMoved` | every system transition in a case's history is paired with one approved request of that action, and the other way round |
| `AlwaysChased` | `ChasedWhileWaiting` | `Chases`: a chase in a worker's hands has not gone out late before, so a settled request sees one commit at most, and its next timer finds it settled; a request not opened has no chase; closed cases stay closed |
| `AlwaysOnlyOvertaking` | `OnlyOvertakingOutlives` | a queued effect names a committed transition that asked for it; a request remembers the cancel effects handled before it |
| `SignOffImplemented` | implements `SignOff` | requests of one case share its subject, of which one request waits, so the cancel effect withdraws at most one |
| `EffectiveDatingProofs!AlwaysTiled` | `Tiled` | versions are 1..n, each window starts where its predecessor's ends; a writer past its lock holds the only open row |
| `AlwaysReproduced` | `SettledReadsReproduce` | no open transaction has an instant before that of a settled read |
| `TimelineImplemented` | implements `Timeline` | as `Tiled` |
| `EffectiveDatingProofs!AlwaysHistory` | `JournalIsTheHistory` | what a call carries from its read (`Carried`) exists, and a membership once written is never unwritten; the events of a team are replayed by the same write that changes the table, so only a call that overwrites what it did not read sets them apart, and is noted |
| `AlwaysArchivedClosed` | `ArchivedTeamsAreClosed` | archiving closes what is open in its own statement; what is open on an archived team afterwards was written by a call that read before, or by a correction |
| `DocumentEngineProofs!AlwaysSignatureStands` | `SignatureStands` | a hash once bound is never bound again, and evidence cites the hash that was bound when it was written |
| `AlwaysFiledAsHashed` | `FiledAsHashed` | until handlers overlap, one message of a document at most is on the queue or in hand, so the bytes a handler carries are the bytes bound |
| `AlwaysFilingNeverSilent`, `AlwaysFailureIsTold` | `FilingNeverSilent`, `FailureIsTold` | a filing that waits has a message, a handler, or one of the named causes noted |
| `IssuedDocumentsImplemented` | implements `IssuedDocuments` | handlers only bind a hash, once; calls of people are the abstract steps under one lock |
| `PersonAccessProofs!AlwaysByOneMerge` | `SupersededByOneMerge` | a loser is in one standing merge at most (the unique index), and a call that read it superseded may bring it back but not supersede it twice |
| `AlwaysUnwinds` | `MergesUnwind` | the merges that moved a login form a trail from its home to where it is: a new merge extends it, the reversal of the newest shortens it, any other is noted as setting it apart |
| `AlwaysEnded` | `EndedStaysEnded` | what a person holds after its end was given after it |

The broker's lemmas (`SlotFacts`, `QueueType`, `QueueTries`) stand at the head of
`OutboxRelayProofs` and `TimedEffectsProofs`. Some invariants are proved and
not run any more, because their proofs need no instance: the type invariants,
`HistoryIsPath`, `ClosedCasesStayClosed`, `TimerLifecycle`, `EffectAtMostOnce`,
`StatusMachine`, `OneDecision`, `Tiled`, `FailureIsTold`, and
`SatisfiedTasksOpen` under `OneBlockerEach`.

Every safety property of the passing runs is proved. Only model-checked: the six
liveness properties (`DueTimerMovesCase`, `EveryFactSettles`, `EveryTimerSettles`,
`EveryDeliverySettles`, `EveryFilingSettles`, `OverdueIsEnded`), which rest on
fairness and are beyond the prover (for all but
`OverdueIsEnded`, whose sweep reads the rows themselves, `OverdueAlwaysInReach`,
`EffectsAlwaysKept`, `AlwaysSeriesAlive`, `AlwaysNeverSilent` and
`AlwaysFilingNeverSilent` prove, the second assuming `OneNamePerEvent`, that what
they wait for is lost in the ways they name
and no other); and the ASSUMEs of the pure modules, which
compare algorithms with their meaning over bounded data, some by recursive
operators. What a recursive definition computes for every input is induction over
data, and not within the prover's reach.

## What the code does not keep

Where the repository's own words say more than the code does, the properties
above are stated as weakly as the code keeps them. The stronger forms are in the
modules too, and five configurations reproduce their violation
(`tlc -config X.cfg M`):

| Configuration | Module | Violated, and by what |
|---|---|---|
| `TasksOverlapping` | `MCTaskEngine` | `SatisfiedTasksOpen`: completing two prerequisites in overlapping transactions leaves their successor blocked, because each evaluates the other's edge before it is stamped (`tasks.ts:265`; `domain/src/tasks/status.ts:5` says it opens). `NothingWaitsOnThePast`: a list raised while its gate is being opened waits on a gate already open (`tasks.ts:512`) |
| `RemindersLost` | `MCReminderSeries` | `NoTimerLost`: a message delivered before its run stamps the row, or after that run rolled back, is taken for a duplicate and completed, the resend falls into the duplicate-detection window, and the timer is lost (`scheduler.ts:136`; `:22-28` says at least once, and that the opposite order "would lose timers outright"). With `NeverChasedAfterCompletion` instead: a handler that has read the task holds no lock on it, the task is completed, and the chase goes out after it (`notify-effects.ts:575`; `notify.ts:253-257`, `notify-effects.ts:543-547` and `documents.ts:707-710` say never) |
| `ApprovalOutlives` | `MCApprovalEngine` | `NoRequestOutlivesItsCase`: `approval.cancel` overtakes the `approval.open` of an earlier transition, and the request is opened for a case that no longer wants it (`approval-effects.ts:143`; `:128` and `pilot-signoff.ts:86` say otherwise). With `NeverChasedAfterDecision` instead: a worker that read the request before the decision sends its chase after it, and inserts the next occurrence, which the decision's cancel did not see (`notify-effects.ts:575-663`; `approvals.ts:680-683` says never) |
| `ConfigAsStated` | `MCConfigHistory` | `ConflictsAreReal`: a write meets the version conflict though nobody else wrote (`resolve.ts:268`, `:58`). `ReadsReproduce`: a read at the present instant changes when a write that took its `now()` earlier commits |
| `DocumentBytes` | `MCDocumentEngine` | `BytesInTheirPlace`: a response is staged where the rendering is, and one may be filed as the other (`documents.ts:1350`) |

Met while modelling, with an ASSUME or a comment in the module named, or a hazard
in `PROJECT.json`:

*Timers and effects.* A timer cancelled after its message was sent still moves
its case. `expectedState` cannot tell two visits to one state apart. A system
self-loop is taken again on redelivery. Two effects of one name on one event
share their key, and one is dropped (`types.ts:73`).

*Tasks and reminders.* Moving a deadline while an occurrence is enqueued starts a
second series (`tasks.ts:1053`). After a moved deadline the first occurrence may
meet its own dedupe key: the caught violation has aborted the transaction, and
the chase ends on the dead-letter queue (`notify.ts:145`). `releaseTask` has no status guard, so a claim on
a finished task can be released and journalled (`tasks.ts:875`). The next chase
hangs on the instant this one fired (`reminderEffect` passes `now` as the anchor),
contrary to `reminder.ts:148-151`, and an hour skipped in spring moves the series
for good (`SkippedHourMovesTheSeries`).

*Notifications.* A crash after the retry's claim loses the chain
(`notify-effects.ts:414`); a retry handled before its timer's stamp commits is
lost; a repeated dispatch that resolves to nobody abandons the rows of the first;
overlapped dispatches announce twice (comment at `:284`), and a stale result
overwrites a row already dead. `admin.test_unread` waits for in-app rows nobody
can read (`UnsentCopiesAreNeverRead`). "Line managers of this team" are its
members who hold the role, which its manager need not be (`notify-resolve.ts:133`).

*Approvals.* A case that closes stops only the first chase of its request: the
rows of the later ones carry no `workflow_instance_id`
(`notify-effects.ts:654-662`). A rejection never fires `reject` (`pilot-signoff.ts:17`). Below its
threshold a case "waits for someone to take approve explicitly", but approve is
the system's alone. A refused open leaves the case awaiting an approval nobody
was asked for. The inbox misses delegates of designated approvers, and
`via_delegation_id` may name a delegation that carried nothing.

*Configuration.* A key reset once cannot be set again. A write for "now" while a
change is staged meets `config_entry_window_chk`. `config.get` reads value and
version in two statements: a write between shows one beside the other
(`config.ts:269-309`, `ScreensAreTwoReads`).

*Documents.* The first view of a letter that asks for nothing clears
`completed_at` (`documents.ts:746-757`; `lifecycle.ts:307-309` says the
opposite), which leaves it outstanding for good and locks its group
(`OnlyNoticesGetStuck`, `OrderedGroupsFinish`). A second run of failures after a
retry by hand reuses its dedupe key and leaves the filing pending
(`documents.ts:1281-1283`). Overlapping renderings may file bytes other than
those hashed (the comment at `:1134` expects an error). A filing put off because
no store is configured is never taken up. Withdrawing a
document leaves its filing pending for ever and its reminders standing. Letters of a deleted category follow the fallback
(`DeletedCategoriesFollowTheOthers`). Whether reading a letter is journalled
follows the existence of a rule of its own and not who is excluded by it
(`documents.ts:139-175` of `apps/api`, `JournalFollowsTheRules`); a staged
response is served under the rendering's hash until the evidence pack tells
(`PacksClaimNoMore`). Nothing outside `packages/m365` asks whether a Graph error
is permanent, and 500 and 502 are classed transient yet not retried.

*Templates.* Concurrent creates meet the unique constraint where the comment at
`templates.ts:277-283` says v3 and v4. Archiving the current version makes the
one before current again; an older draft published later does not become current
(`OneCurrentVersion`).

*Lists.* `documents.listForSubject` (`documents.ts:217-219`, `700-713`) and
`templates.list` (`templates.ts:167-177`) rebuild a date cursor in milliseconds
while the order is by microseconds, which `config.ts:342-360` warns of. Going
back, rows of the last row's millisecond are never shown; going forward, letters
generated in one transaction repeat their first page for ever
(`DateCursorsAreNotExact`). A row whose key changes between pages is read twice
or never, and a cursor that cannot be decoded gives the first page
(`MovingRowsAreNot`). Of two overlapping edits of a lookup value the later undoes
the earlier (`OverlappingEditsUndo`).

*Persons.* Unmerging out of order leaves logins with the wrong person;
two merges of the same two persons in both directions, read concurrently, both
commit; a stale re-engagement brings back a superseded person; the sweep ends
access that was extended meanwhile; who is converted while inactive cannot be
re-engaged. Flags of a person merged into another after that one was merged do
not reach the last.

*Grants and scopes.* Scopes are ranked but not nested: a line manager who is not
a member of a team, and an external administrator, do not see their own
documents, and with both roles the allocated persons are lost
(`scope.ts:42`, `ScopesEndButDoNotNest`). Field classes go by role names, over or
not (`identity.ts:139`, `FieldsFollowTheRole`). An expired grant that was not
revoked refuses the same grant anew (`WindowsDoNotMakeRoom`). Restoring the
grants of a reversed merge sets their start to now, so one not yet begun is in
force at once (`RestoredGrantsAreInForce`). Ending an allocation reads without a
lock and may be journalled twice.

*Teams.* Two calls that both read a membership open both end it
(`effective-dating.ts:73`); a stale update writes the whole row and journals only
its own changes (`team.ts:273`); a correction, or an addition that races, can
leave an archived team with an open membership.

## What is not modelled

* The calls that create persons, allocations, ad-hoc tasks, templates and users,
  or write flags and profile statuses: their acceptance is a function where it has
  rules, their races are named above. They touch one row, and no engine's
  properties depend on them.
* Erasure, sessions and one-time codes (the latter belong to Better Auth).
* Payloads, wording, rendering, channel preferences and backoff delays.
* Database deadlocks: any transaction may abort at any step, so safety does not
  rest on their absence; that retries succeed in the end is not shown.
* Guards: a hard guard may block or not at every evaluation.
* The topic's subscribers, of which there is one demonstration consumer.
* Most of the repository by lines: the web and mobile interfaces (about 18 000
  lines), request schemas, event schemas, configuration keys and their defaults,
  migrations and generated types are data or presentation. They have no behaviour
  to state a property about that the type checker does not see; where the code
  relies on one of their constraints, that is a guard of the module that meets it.

## Plan

What would come next, in order of weight:

1. Abstract specifications of notifications and of persons' access, which have none
   yet, and the proof that the engines implement them.
2. The calls on templates and allocations as engines with two callers, on the
   pattern of `TeamRoster`.
3. `NotificationDispatch` with the broker's delivery count, composed with
   `ServiceBus` as `ReminderSeries` is.
