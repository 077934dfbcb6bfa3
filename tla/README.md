# Verification of the web boilerplate

TLA+ models of what is stateful in this repository: the calendar (its tables,
its writers, its engine, its pages), the background processes (reminder sweeper,
job queue, notification bus), billing, posts, accounts and files, and the two
scripts that write to disk. TLC checks them on small instances; TLAPS proves
what matters most for every value of the constants. `PROJECT.json` maps every
definition to the source lines it stands for, and lists the hazards, the runs,
the findings and the theorems.

Paths below are relative to the repository (`src/` in `PROJECT.json`).

## 1. The system

A Next.js application (`apps/web`) and a worker (`packages/jobs`) share one
Postgres database (`packages/db`). Nothing else coordinates them: no lock
service, no leader, hardly a row lock. What keeps concurrent requests apart is a
handful of unique constraints, transactions under READ COMMITTED, and pg-boss's
job tables. Around them stand services that call back and forget: Stripe,
Resend, Uploadthing, Meilisearch. In the browser, react-query caches and local
optimistic state hide answers that are late, refused or never come.

| Component | Where | State | Hard part | Modules |
|---|---|---|---|---|
| Reminder dispatch | `packages/jobs/src/reminders/run.ts` | delivery ledger, jobs | overlapping sweeps, crash between claim and send, failed undo | `ReminderDispatch`, `ReminderPromise` |
| Reminder due selection | `run.ts`, `sweep.ts` | none (reads) | three routes with no common snapshot, caps | `ReminderDue` |
| Job queue | `worker.ts`, `enqueue.ts`, `handlers/*` | `pgboss.job`, dead letters | at least once, expiry of a running attempt, who creates the queues | `JobQueue`, `JobPromise` |
| Notification bus | `realtime/notification-bus.ts`, `listener.ts` | one LISTEN connection | errors of connections already replaced | `NotificationBus` |
| Notifications, live feed | `notifications/*`, `notifications-feed.tsx` | rows, pages and badge in a cache | pushes, fetches and mutations crossing | `NotificationFeed` |
| Calendar series writes | `actions/calendar.ts` | masters, overrides, dates | read first, write in a later transaction; `series_end_at`; SEQUENCE | `CalendarSeries`, `SeriesIntent` |
| Event rows | `validators/calendar.ts`, `actions/calendar.ts`, schema | columns, guests, reminders | which check objects first; diffs | `EventRows` |
| Event composer | `event-composer.tsx`, `edit-scope-dialog.tsx` | a dialog seeded from a cache | the cache and the chips change under it | `EventComposer` |
| Attendees and RSVP | `calendar-acl.ts`, `calendar-rsvp.ts`, `invitations.ts` | attendee rows, links, guests' own calendars | stale answers, crossing mails, whose row it is | `Guests`, `CalendarAccess`, `RsvpLinks` |
| Calendars | `actions/calendar.ts` | `calendars` | one primary per workspace | `Calendars` |
| Range query, month view | `routers/calendar.ts`, `grid.ts`, `month-grid.tsx` | none | the window against the grid, in every zone | `MonthView` (and `CalendarSeries`, `Recurrence`) |
| Recurrence engine | `packages/calendar` | none | seek, COUNT, UNTIL, zones, gaps | `CivilTime`, `WallTimes`, `Recurrence`, `RuleText` |
| ICS emission | `packages/calendar/src/ics.ts` | none | escaping, folding by octets | `IcsText` |
| Billing | `stripe/webhook`, `actions/billing.ts`, `auth.ts` hooks | `subscriptions` | events out of order, stale retrieves, deleted owners | `Billing` |
| E-mail suppressions | `resend/webhook`, `email-suppressions.ts` | `email_suppressions` | redelivery, a failed write, letter case | `SuppressionList` |
| Rate limiting | `lib/rate-limit.ts` | buckets in memory | window boundary, pruning | `RateLimit` |
| Posts and search | `actions/post.ts`, `lib/search.ts`, `components/posts` | posts, revisions, documents, cache | index writes after commits, unordered | `PostBoard`, `PostCache` |
| Accounts' e-mail | `packages/auth/src/auth.ts` | account, links, sessions | links clicked late, twice, elsewhere | `AccountEmail` |
| Administration | `actions/admin.ts`, `rbac.ts` | roles, bans, sessions | administrators acting on each other | `Access` |
| Sign-in page | `login-form.tsx`, `captcha-widget.tsx` | single-use tokens | a token spent by another form | `SignInPage` |
| Proxy, locales | `proxy.ts`, `(dashboard)/layout.tsx` | cookies | a dead cookie between two redirects, a page only the layout guards | `Gate` |
| Organizations | `components/organization/*`, `lib/organization.ts` | active pointer, members | optimistic state outliving its answer | `Workspaces`, `Members` |
| Account cards | `components/account/*` | second factor, sessions, passkeys, deletion | several tabs, lost answers | `TwoFactorCard`, `AccountCards` |
| Files | `lib/uploadthing.ts`, `actions/uploads.ts`, `actions/avatar.ts` | rows, remote files | storage and database fail apart | `StoredFiles` |
| Data export | `actions/data-export.ts` | none (reads) | twelve reads side by side | `DataExport` |
| Tools | `scripts/init-app.mjs`, `packages/db/src/backup.ts` | documents, dumps, databases | stopped half way and run again | `InitApp`, `Backup` |

How they interact: the web process writes the calendar that the sweeper reads;
sweeper and web process enqueue jobs; handlers write notifications, send mail,
remove files and cancel subscriptions; NOTIFY reaches the bus, the bus feeds the
event streams, the streams patch the caches. Deleting an account starts in
`auth.ts`, hands its subscriptions and files to the queue, and ends in `Billing`
and `StoredFiles`.

## 2. What is modelled

Every module is parameterised by CONSTANTS, has one action per operation,
handler or statement, and one type invariant. Headers and comments say what an
action stands for. A definition introduced by "Variation" is a plausible bug in
the definition after it; it is used to test that a property notices.

### Background

`ReminderDispatch` runs one sweep per worker against one ledger: `Claim`,
`SkipClaimed` and `ClaimRejected` are the three outcomes of the INSERT (a row, a
conflict, a foreign-key error), `SendSucceeds`, `SendThrows`, `Compensate` and
`CompensationFails` the `try`/`catch`, `Crash` may come anywhere. A key stands
for (reminder, occurrence start). `ReminderPromise` is what a key may go through
from outside; `StageOf` is the mapping.

`ReminderDue` makes every statement of the three routes an action, with users'
edits between any two. `stable` and `seen` are history: what nobody touched
since the sweep began, and what was on the calendar at some instant of it.

`JobQueue` runs the real handlers step by step inside pg-boss's attempts:
`Fetch`, then `Lookup` / `SendMail`, `InsertRow` / `Publish`, `RemoveFiles` or
`CancelOne`, then `Complete` or `Fail`; `Expire` takes a running attempt's job
away from it, `Crash` kills a worker, `ClientCreatesQueues` and `Boot` race to
create the queues, with or without their dead letter. `JobPromise` is the
at-least-once contract; `Fate` is the mapping.

`NotificationBus` is the process-wide listener: `EnsureListening` shared by the
streams, the error of any connection still alive, the reconnect timer.
`NotificationFeed` is one tab: fetches read at one instant and land at another.

### Calendar

`CalendarSeries` splits every scoped write as the code does: `Ask` (the target
is read), `ReadDates` where the code reads the dates before its transaction,
then one action per transaction. What a transaction takes from the request's
reads is taken from `req[a]`; what Postgres computes from the current row is
taken from the tables. Slots lie on a line on which every rule steps by two, so
that a slot is an occurrence, lies between two, or past the end. `Virtual` and
`Edited` are the two branches of the range query, for a window no wider than a
slot: a wider window shows the union of such windows but for its filters, which
a narrow one makes strictest. `SeriesIntent` is the same set of writes as the
person making them understands them.

`EventRows` follows one submitted event through the schemas, the actions'
checks and the tables' constraints. `EventComposer` is the dialog before it. Its
draft is seeded once, from the chip that was clicked and the cached detail; what
it is compared with to warn is that chip's start and the rule the cache holds at
the time, so the chip may be of a moved or later occurrence and the rule newer
than the seed. `Guests` has two saves at once, answers by link and by session,
changes that raise SEQUENCE without an e-mail (free/busy), and mails delivered in
any order to guests' clients that apply them by SEQUENCE.
`CalendarAccess` lets addresses be unproved, change and change hands.
`RsvpLinks` is one browser with several links and tabs. `Calendars` runs demote
and insert as separate statements under the partial unique index.

`CivilTime` (day numbers, zones, wall times to instants) is used by `WallTimes`,
`Recurrence` and `MonthView`. `Recurrence` has the engine's period walk with
seek, limits and slack on one side and on the other RFC 5545's criterion, day by
day, with no walk: `WindowIsTrue` compares the two. `RuleText` and `IcsText` are
writer and reader of two texts; characters are told apart by what the writer
does to them.

### Accounts, money, content, tools

The modules of the table in section 1, each written from the files its header
names. The services are external and modelled from their use here: Stripe
delivers events until answered, in any order; Uploadthing calls back until
answered; Better Auth applies calls in the order they arrive and calls the hooks
of `auth.ts`; Meilisearch answers or is out. Where the code drops an answer, the
model has both: a deletion mail that was refused while the card is told it went
(`AccountCards`), sessions that stay because their revocation failed
(`AccountEmail`, best effort in the code), a switch of organization applied
although the browser sees an error (`Workspaces`), and a process that stops
between a post's commit and its index write (`PostBoard`). `Backup` dumps and
restores two databases, whose files share a directory.

## 3. What is checked

The components around the core share no state in the instances checked, so four
runs host several of them: a behaviour of `MCCalendarApp`, `MCSite`,
`MCAccounts` or `MCAlgorithms` is a behaviour of one component, chosen at the
start (`which`), and a property of such a run is a conjunction of the named
properties of its components, each of which is stated and commented in the
component's own module. `MCProgress` does the same for the three background
components, with their fairness. The instance of each component is the comment
above its INSTANCE. `MCCalendarApp`, `MCSite` and `MCAccounts` leave to the .cfg
whatever a theorem ranges over: every constant of their components is a constant
of theirs, and a variable of theirs stands for the component's of that name;
whatever a behaviour's component does not have stays as it began.

| Run | Instance | Shows |
|---|---|---|
| `ReminderDispatch` | 2 workers, 1 reminder, 2 fire times, 2 faults | `DispatchOnce`, `OneHolder`, `NoSilentLoss`, `SweepCovers`; implements `ReminderPromise` |
| `Progress` | bus: 3 streams, 4 connections, 3 faults; queue: 1 job of any kind, 2 workers, 2 retries, 2 crashes; sweeper: 2 workers, 1 key, 2 faults | `BusHolds`, `QueueHolds`, implements `JobPromise`; liveness `KeepsListening` and `WorkGetsDone` |
| `CalendarSeries` | 1 request at a time, 3 requests, 2 masters, 5 slots, every kind of rule | `EndCovers`, `OverridesFollowTheirMaster`, `NoPhantom`, `SequenceRises`; implements `SeriesIntent` |
| `CalendarSeriesRaces` | 2 requests interleaved, every kind of write | `OverridesCarryTheirUid`, and `RacesSpareTheSeries`: SEQUENCE still rises for the scoped writes, an added date is covered |
| `CalendarApp` | `Guests`, `Calendars`, `CalendarAccess`, `RsvpLinks`, `EventComposer`, `EventRows`, `MonthView`; `WallTimes` with eleven hundred wall readings in five zone pairs | `CalendarsHold`, `GuestsHold`, `RequestsHold`, `MonthHolds`, `WallTimesHold`, `SavesSpareWhatTheyKeep` |
| `Site` | `Billing`, `PostBoard`, `PostCache`, `NotificationFeed`, `SuppressionList`, `RateLimit`, `ReminderDue`, `InitApp`, `Backup` | `BillingHolds`, `PostsHold`, `CachesHold`, `DeliveryHolds`, `DueIsExact`, `ToolsRest`, `ToolsSpare` |
| `Accounts` | `AccountEmail`, `Access`, `SignInPage`, `Gate`, `Workspaces`, `Members`, `StoredFiles`, `DataExport`, `TwoFactorCard`, `AccountCards` | `EmailHolds`, `AccessHolds`, `PagesHold`, `FilesHold`, `CardsHold` |
| `Algorithms` | every rule of at most two parts, UNTIL as a date and in UTC, from two dates at a time one of whose days skips it, ending later or, zones apart, on an earlier day, in three windows; rule texts of three parts; texts of four characters | `RecurrenceHolds`, `TextsHold` |

Runs that end in a violation, each a behaviour of the code that contradicts what
the repository says of it (`findings` quotes the lines):

| Run | Property | What happens |
|---|---|---|
| `ReminderDueTwice` | `OncePerMeeting` | a meeting moved while a sweep reads is found by branch B and by branch C, at two starts, hence under two ledger keys |
| `CalendarSeriesStaleEnd` | `EndCovers` | a date added during an edit of the whole series is left out of `series_end_at` |
| `CalendarSeriesOrphan` | `OverridesFollowTheirMaster` | an occurrence edited while its series is deleted stays on the grid |
| `EventComposerDrop` | `NoSilentDrop` | a later or moved occurrence saved for all of its series, its start untouched, moves the series and drops its edits and skips unannounced |

`EndCovers` and `OverridesFollowTheirMaster` thus hold of one request at a time
and are broken by particular races.

### Statements kept beside the models and not run

Each is a definition next to the properties of its module that states what a
comment or document says, in full, where the run checks what holds of the code.
They do not hold of the models as they are, and are kept for whoever changes
that code.

| Statement | Says | The run checks instead |
|---|---|---|
| `ReminderDue.BacklogDrains` | `sweep.ts:16`, a late worker catches up on the next tick; but the cap counts deliveries already claimed | `DueIsExact` |
| `CalendarSeries.DatesKeepTheRule` | a date added leaves the rule alone; a concurrent cut is written back | `AddedDateIsCovered` |
| `CalendarSeries.SkippedIsHidden` | a skipped date is hidden; skipping an edited one through the dates field leaves the edit | `DoesWhatItSays` (skips of the grid) |
| `Guests.CalendarsAlwaysAgree`, `NoAnswerToCancelled` | guests' calendars agree after two saves at once; no answer after a delete | `CalendarsAgree` (saves that did not overlap) |
| `Calendars.OrgsCanBeDeleted` | an organization can always be deleted; two primaries meet in the owner's personal workspace | `OnePrimaryKept` |
| `PostBoard.GoneMeansUnsearchable` | a deleted user's posts leave the search | `SearchFollows` |
| `NotificationFeed.BadgeIsAuthoritative` | the badge is the server's count whenever at rest | `RestingFeedIsTrue` |
| `NotificationBus.FailuresAreCaught` | a failed start reaches `onError` and nobody else | `BusHolds` |
| `Billing.OneCustomerPerOwner` | one Stripe customer per owner; two checkouts at once make two | `RowsHaveTheirOwner` |
| `Access.AnAdminRemains` | the last administrator cannot be lost; two can demote each other | `OneAtATimeAnAdminRemains` |
| `Gate.EveryPageIsMatched` | `proxy.ts:37-39`, every page under the layout is matched by the proxy; `/notifications` is not among its prefixes, so that who has no cookie is turned away without a way back | `OnlyADeadCookieIsTurnedAway`, `LandsWhereAsked` (all other pages) |
| `Gate.SignInIsReachable` | who has no session reaches the sign-in page; a dead cookie is sent round | `OnlyADeadCookieIsTurnedAway` |
| `SignInPage.RetryIsPossible` | a failed captcha script can be retried | `SolvedIsFresh` |
| `TwoFactorCard.AbandonedStaysOff` | cancelling a setup leaves two factors off | `NobodyIsLockedOut` |
| `AccountCards.EmailSentIsSent` | `delete-account-card.tsx:61`, the card cannot drift from what the server did; a refused mail is answered as sent | `DangerTellsTheTruth` |
| `DataExport.EveryRowIsExported` | `data-export.ts:28`, every row the caller owns; five tables with a user's id are not read | `UntouchedIsExported` |
| `Backup.NewestIsRestored` | `backup.ts:10`, restore the newest dump; the names of all databases sort together, by database before time | `LatestIsTheLastTaken` |
| `Workspaces.HeaderIsAlwaysRight`, `Members.PageYieldsToTheHook` | header and list follow the server with no exception | `HeaderTellsWhereWritesGo`, `PageAddsNothing` |
| `InitApp.OwnTextSurvives`, `SlimmedDocsPass` | a slim run may be repeated at any time; its documents pass their check | `SecondRunIsQuiet`, `SlimIsMadeGood` |

`MovedSplits` is FALSE in every run: a split that also changes the rule or the
time keeps overrides of slots the new rule does not generate, so that
`NoPhantom` fails with it. `EarlyDates` (a date before the series begins) is
TRUE only in the races run.

### Bounds and why they are enough

* Two workers, two requests, two tabs, two saves: the protocols here are about
  one row two parties want. A third party adds nothing that two, one after the
  other, do not do, and the proofs cover any number wherever section 4 lists the
  property. The bus
  has three streams (one
  starts, one joins the start, one comes after) and four connections (three may
  fail and the fourth still listens).
* Two masters: a split makes a second one; a pending split holds a free one.
  Four to six slots with steps of two: a first occurrence, a cut, something
  before and after it, a slot off the rule.
* `MaxAsks`, `MaxEdits`, `MaxSaves`, `MaxCalls`, `MaxVersion` bound what users
  do; `MaxFaults`, `MaxCrashes`, `MaxDrops`, `MaxKills`, `MaxOutages` what
  fails; `MaxNow` and `MaxHops` clocks and redirects; `MaxPassed` a counter of
  one property; `SweepLife` how long a sweep may take. One of each fault is
  enough wherever the code treats a second one as the first.
* `Retention >= Grace + SweepLife` is what the code has with 90 days against an
  hour.
* `MaxPeriods` and the rules, windows and zones of `Algorithms` are chosen so
  that every part of a rule is combined with every other, month ends and the
  leap day are hit, a zone changes within the window, and an event longer than
  its window started before it.
* Symmetry over masters and actors in the `CalendarSeries` runs, none where a
  liveness property is checked.
* `CHECK_DEADLOCK FALSE` where users may stop asking or a computation is done
  and the bound makes them: the `CalendarSeries` runs, the composites and the
  composer's violation run, and `Progress`, whose clock and jobs run out.
  `ReminderDispatch` checks deadlock.

### Fairness

Only `Progress` assumes any, all of it weak, and of processes rather than of
their success:

* the bus: a connection being opened gets its answer (`Connected`, `Listening`),
  an armed timer fires (`Reconnect`). `MaxFaults` bounds how often it fails:
  without such a bound nothing listens eventually.
* the queue: a worker process goes on with what it has in hand, fetches and, if
  it died, is started again by its supervisor (`WorkerStep`); pg-boss's
  maintenance expires an attempt past its limit (`Expire`). Whether a handler's
  call succeeds is not assumed: a job whose every attempt throws ends in the
  dead-letter queue, which `QueuedIsSettled` counts as settled.
* the sweeper: pg-boss fires the five-minute cron for as long as a worker runs,
  and a sweep that has begun runs on (`SweepStep`). Nothing is assumed of the
  clock, of users, or of a send.

## 4. What is proved

For every value of the constants that satisfies the assumptions a theorem or its
module names: `ConstantsAssumption` (numbers are numbers, `None` is no value of
another kind) and, of the dispatcher, `RetentionAssumption`. The components of a
composite state theirs as `Bounds`, of the same kind; a theorem about one of them
assumes them, and the composite's `ConstantsAssumption` collects them, where TLC
evaluates them for the run's instance. Two say more, and why the code justifies
it: `MonthView`'s (a clock is less than a day from UTC, and an all-day event is
whole days, which the CHECK `calendar_events_all_day_midnight` keeps) and
`WallTimes`' (an offset is less than a day and two changes of a zone are more
than two days apart, which is what sampling a day on either side relies on: the
comment of `resolveCivil` has them months apart).
Each theorem that needs anything else says so in its ASSUME. Where a run hosts
several components, the component's theorem is proved of its own `Spec` and then
lifted: a behaviour of the composite that begins as that component's goes on as
its (`CalendarsRun`, `RowsRun`, ...).

| Theorem | In | States |
|---|---|---|
| `TypeCorrect`, `MutualExclusion`, `DispatchedOnce`, `NoRowWithoutJob`, `NothingPassedOver`, `PromiseKept` | `ReminderDispatchProofs` | all properties of the `ReminderDispatch` run, and the refinement of `ReminderPromise` |
| `EffectsAreBounded`, `CompletedOrKept`, `PromiseKept` | `JobQueue` | the parts of `QueueHolds`, and the refinement of `JobPromise` |
| `QueueAlwaysHolds`, `QueuePromiseKept`, `ProgressBusHolds` | `MCProgress` | the safety half of the `Progress` run |
| `TablesAreTyped`, `OverridesKeepTheirUid`, `RacesAreSafe` | `CalendarSeriesProofs` | both runs of `CalendarSeries`, however many requests race |
| `SeriesEndsHold`, `OverridesLiveAndDie`, `SequenceAlwaysRises`, `EditedIsAnOccurrence`, `WritesDoWhatTheySay` | `CalendarSeriesProofs` | the same for one request at a time, up to the refinement of `SeriesIntent` |
| `PrimaryAlwaysKept`, `InvitationsBelong`, `LinksAnswerForTheNamed`, `GuestsAreKept`, `WarningsAreRight`, `SavesAreAsSubmitted`, `SavesKeepThePast`, `MonthIsLaidOut`, `TimesAreTrue` | `MCCalendarApp` | each component's part of the `CalendarApp` run |
| `CalendarsAlwaysHold`, `GuestsAlwaysHold`, `RequestsAlwaysHold`, `MonthsAlwaysHold`, `WallTimesAlwaysHold`, `SavesAlwaysSpare` | `MCCalendarApp` | all of the `CalendarApp` run |
| `BillingIsTrue`, `PostsAreKept`, `ListSettles`, `FeedIsTrue`, `ListIsTrue`, `LimitHolds`, `DueIsFound`, `SlimHolds`, `BackupsAreSafe` | `MCSite` | each component's part of the `Site` run |
| `BillingAlwaysHolds`, `PostsAlwaysHold`, `CachesAlwaysHold`, `DeliveryAlwaysHolds`, `DueIsAlwaysExact`, `ToolsAlwaysRest`, `ToolsAlwaysSpare` | `MCSite` | all of the `Site` run |
| `ChangesAreAgreed`, `AccountIsTyped`, `AdministrationHolds` | `AccountEmail`, `MCAccounts` | the parts of `EmailHolds` and `AccessHolds` |
| `SolvedIsAlwaysFresh`, `GateIsRight`, `HeaderIsRight`, `PageAddsNothingEver` | `MCAccounts` | the parts of `PagesHold` |
| `FilesAreKept`, `ExportsAreTrue` | `MCAccounts` | the parts of `FilesHold` |
| `NobodyIsLockedOutEver`, `CardsTellTheTruth` | `MCAccounts` | the parts of `CardsHold` |
| `EmailAlwaysHolds`, `AccessAlwaysHolds`, `PagesAlwaysHold`, `FilesAlwaysHold`, `CardsAlwaysHold` | `MCAccounts` | every invariant of the `Accounts` run |

**The dispatcher.** `DispatchOnce` is not inductive: a key handed over once must
stay out of reach, because its row is still there (the unique constraint), its
reminder is gone (the foreign key), or its window is closed for every sweep
running or yet to begin (`TooLate`). `IInv` says so, with what that needs: a
claim in hand has its row, sweeps do not outlive `SweepLife`, rows are not
inserted before their key fires. The crucial lemma is `ExpiredTooLate`: a row old
enough for the retention pass belongs to a key no sweep can want, which is where
`RetentionAssumption` enters. `NoSilentLoss` and `SweepCovers` follow from
invariants over the same `IInv`. For the refinement, each action is shown to be
one step of `ReminderPromise` on the one key it handles and a stutter on all
others, but for a reminder's deletion, which withdraws a set of keys at once
(`Withdraw`), and the retention pass, which leaves a key settled: by
`ExpiredTooLate` no sweep takes it up again.

**The bus.** `BusHolds` alone is not inductive: that an error closes the only
listening connection needs that nothing is being opened while the bus listens
(`OneAtATime`), and that what is being opened is fresh (`StartingIsFresh`).
`EnsureListeningWorks` is stated once and used for the two callers, a stream that
opens and the timer.

**The queue.** The invariant is about attempts, not jobs: whatever a worker has
in hand, at each step of its handler, the effects before that step are there
(`Handling`), although the job may have expired, been fetched by another worker,
or been completed meanwhile; and effects are never taken back (`Grows`), so
another worker's progress harms no one's. How often an effect may happen is
counted with the workers that may still make it (`Owed`): what was made and what
is owed never exceed the attempts the job has had (`Counted`), and a debt is only
paid or forgotten.

**Series, racing.** `OverridesKeepTheirUid` needs `UidInv`: rows of masters are
never removed and no request in flight names a master that never existed. The
case that matters is `SplitSeries`, which re-parents rows: the new master had no
rows of its own, so the rows handed to it meet none. `TablesAreTyped` needs that
no rule of a COUNT below one is written (`GoodRule`): a cut leaves a COUNT of the
occurrences before it and is refused when there are none, and a split's tail
keeps at least the one it starts with. `RacesAreSafe` is the step-by-step form:
which writes raise SEQUENCE whatever the writer had read.

**Series, one request at a time.** The assumption `Alone` (one actor) is not a
convenience: `CalendarSeriesStaleEnd` and `CalendarSeriesOrphan` are what
happens without it. `SoloInv` adds to the two invariants above that what a
request has read is still so (`Fresh`) and that every row is `Sound`: its
`series_end_at` covers what it generates and adds, its overrides live and die
with it. `GridInv` adds that requests name what a user can (`NamedAsAllowed`) and
that a live edit is of an occurrence (`AllReal`), which the split makes hard: the
head is cut by COUNT when it had one, so the two halves must share out exactly
the occurrences before and after the cut. That is `BeforeIsExact`, a statement
about cardinalities proved by a bijection onto an interval, on which `CutsInTwo`
rests. `LateInv` adds that no date comes before its series begins. From there
the refinement is by effect: `View` says what the two branches of the range query
show of a row with its overrides and dates, with no window in it, and for every
write one lemma says what becomes of that, and one that it is the step of
`SeriesIntent` of the same name; all rows not written show the same
(`OthersShowTheSame`). The assumptions `~MovedSplits`, `~EarlyDates` and no
`"exdate"` in `Ops` are those of the run, and are discussed in section 3.

**Calendars and attendee rows.** `OnePrimaryKept` needs that what a request
demoted stays its own to restore until it commits (`DemotedAreHeld`), that an
update knows the workspace of its calendar until the organization goes
(`UpdatesKnowTheirHome`) and that a calendar is created once. That an attendee
row admits only who proved its address rests on `VerifiedIsProved`, that an answer
stays its giver's after the address moved on `AnswersAreStamped`.

**Guests and links.** Guests' calendars agree once mails are in because of what is
owed while they are not: a guest's calendar holds the event as it is or a mail is
on its way that will make it so (`NobodyIsForgotten`), equal sequences mean equal
events (`SequencesAgree`), and there are no more bumps than saves
(`BumpsAreSaves`), which bounds the numbers mails carry. A tab's form names the
guest of the cookie it posts with (`FormsNameTheirHandle`), and the cookie of a
guest holds a link of that guest, whatever other links the browser opens
(`CookiesKeepTheirName`).

**What is submitted.** What the composer compares its draft with, the chip's start
and the cached rule, is what a drop is judged by. A form is never shown without a
detail in the cache to compare it with (`ShownWithItsDetail`), and a request
carries the warning computed from the start and rule compared with
(`WarnedAsShown`), however stale these became in between. So, when the write
lands on a series that still has that rule and starts where the chip was, whatever
it drops was announced. The statement is about the series the write meets, not
the one there was when the request was sent. It is silent about chips that are
not at the start of the series, later occurrences and moved ones: there the code
does not warn, and `EventComposerDrop` shows what is lost.
`EventRows` needs a row per address and per reminder key (`OneRowEach`), from
which `SavedAsSubmitted` gets its cardinalities by a bijection between rows and
keys. That the schemas leave the CHECK constraints nothing to refuse is
`ChecksPass` and `RemindersPass`; that what the unique key refuses on a create is
a list with a repeated address is `RepeatsAreCounted`.

**Accounts.** That both mailboxes approve a change of a verified address is an
invariant of the links rather than of the clicks: a link that applies a change is
in the new address's mailbox, and exists only once the old one's was clicked
(`ChangesAreAsked`), so links of several requests, clicked late or twice, lend
each other nothing. In `Access`, that an administrator remains needs a statement
about the role change in flight: as long as changes come one at a time, its caller
still is an administrator and is not its target (`RoleChangesAreAlone`).

**Pages.** The invariants are in the components (`PageInv`, `GateInv`,
`HeaderInv`, `MembersInv`). A solved widget's token is fresh because every token
sent was minted before (`TokensAreMinted`) and a widget that turns solved mints a
new one, whichever view it was mounted in. A visitor's way through the redirects
is one of three (`Trail`): where they asked, the sign-in page with the way back
in hand, or the dashboard; the proxy redirects at most once, to a page it is
content with (`OneRedirect`), so that only a layout that disagrees makes a second
redirect. Whom the layout turned away either goes back and forth with a dead
cookie or was on the way, without a cookie, to the page the proxy overlooks, and
then signs in and sees the dashboard (`LostForGood`); nobody else is led to that
page (`OnlyAskedFor`). The header needs what is shown at each stage of a switch
(`ChoiceFollows`) and that the hook's copy is the pointer except between a switch
served and its answer (`HookFollows`). The members page is the hard one, since
answers may cross the hook's reloads: what was removed from here is gone from the
server for good, because ids are never given again (`IdsAreFresh`), and gone from
the hook's rows once it has loaded (`RemovedAreGone`); and a role shown before
its time is on its way, stored, or in the hook's rows (`RolesArrive`), which is
where "unless two calls crossed on the row" enters: the second answer would
clear or keep an override that is not its own.

**Files, exports, cards.** A file is known to a row, to the keys captured by a
deletion in progress, or to the purge it owes (`ServedIsKnown`), unless a fault
excuses it, and a callback that is due is its first (`DueIsFirst`); a file that
was replaced never becomes the avatar again (`AvatarsMoveOn`), although two swaps
may both have read the same one. What an export reads in each query lies between
what stayed since it began and what was ever there (`HistoryIsRight`,
`ReadInTime`), however the rows change between two queries. That nobody is
locked out rests on what a tab waits for: until a page is left or a setup
cancelled while it verifies, a tab has one call, in the form that made it, with
the secret it has shown (`CardWaits`). The passkey card's answers may come in any
order; for each passkey not touched elsewhere, those on their way will bring the
card to what is stored (`AnswersAgree`). No two calls of a kind are under way for one passkey but
removals (`CallsAreApart`): nothing holds that button, and a second click is a
second call, which is refused once the first is served.

**The month.** That no two bars meet in a lane looks inductive over the bars and
is not an induction: `LaneOf` defines a bar's lane by the lanes of those drawn
before it, and that such a function exists has to be shown of the order.
`BeforeOrders` says the sort is an order, `RanksRise` that a bar has more before it
than any of those has, and `LanesAreDefined` takes the least rank at which the
equations could fail (`Least`, which is `WFMin` of the library) and extends the
lanes of the bars below it by one (`LanesGrow`). `LanesApart` is then about the two bars
only: the one drawn later avoids the other's lane. That the window reaches the
grid is `CellsAreAsked`: two clocks less than a day from UTC are less than two days
apart, and the window is the grid's days and one more on either side.

**Dates and wall times.** The formulas of `civil.ts` are shown to be the calendar by
taking a day number apart into era, year of the era and day of that year, which
can be done in one way only (`DateOfSplit`, `SplitOfDate`), so that the next day is
the next day of the same year or the first of the next; `DatesAreGregorian` holds
of every integer. Of `resolveCivil`, `OneChangeAtMost` says what its two samples
know: at most one change lies between them and they are the offsets on its
sides. From there it is a case of the side on which the wall time reads, of both
(the first) or of neither (`ReadAroundAChange`). `TimesInv` says that what was
derived is what the typed times derive.

**Billing.** That a row at rest says what Stripe does is an invariant of what is on
the way (`TruthIsOnTheWay`): while events are handled one at a time and in order,
the last event of a subscription will bring the row to Stripe's status, because it
carries it or its handler will retrieve it, and where there is no event left the
row has it. That a deleted owner's subscriptions end cancelled follows them from
the hook's map to the job (`OwedIsHandedOver`). A theorem of any number of
subscriptions also needs that rows are counted (`RowsAreCounted`): `at` numbers a
row by the rows there ever were.

**Posts and caches.** `SearchFollows` speaks of moments at which nothing is under
way; what holds in between is `SearchCatchesUp`: a post's document is its row, or
a call is about to make it so. The rolled-back optimistic list is right once all has
settled (`SettledListIsTrue`) because a list under way is the server's, or a mutation
that was served has yet to be answered, and will have it read again
(`FetchIsFresh`).
The feed was the hardest of this run: what is shown, what each fetch carries and
what is still in the stream together miss no row down to the cursor
(`ListsAreTrue`), none is there twice although pages shift under pushes, and the
badge is right once what is owed has come (`CountIsTrue`). Each holds until one
of the races named at `RestingFeedIsTrue` taints it. The pages are sequences of
sequences; the model and the properties speak of positions in them, never of a
flattened list, so that no fold stands between them and the provers.

**Delivery.** The webhook's loop over the recipients may stop anywhere; whoever the
event in hand names is suppressed or still to be reached (`LoopLeavesNobody`). The
limiter's bound needs a history of grants: `granted` counts, for each instant, what
was let through up to it, and `BucketCounts` says what a running bucket knows of
the window before it was opened, from which two limits in any window follow
(`TwiceTheLimit`), wherever that window lies over the bucket's edge.

**Due selection, tools.** The three routes are read one after the other:
`SweepIsBracketed` keeps what nobody touched below, and what was ever there above,
the calendar of every instant of the sweep, and `UntouchedIsRead` and `QuietIsTrue` say
per route what its answer has and has not. A dump at rest is whole because a
dump has one writer (`EachHasItsFile`) and what `pg_dump` reported lies there
unwritten (`TakenLie`). A slim run stopped half way is made good because the
passes begin only once everything is removed (`PassesAreDone`).

Only model-checked:

* liveness (`KeepsListening`, `WorkGetsDone`): out of the prover's reach;
* `RecurrenceHolds`: the engine's walk and RFC 5545's criterion are recursive over
  data, in modules whose operators are declared RECURSIVE;
* `TextsHold`: that a text reads back as it was typed is an induction over its
  characters;
* that a row's status is Stripe's is claimed of events handled one at a time and in
  order (`SettlesOnTruth`, `EntitledPay`). Of events out of order the run and the
  theorem have only who owns a row and that a deleted owner's subscriptions end;
  an older retrieve may then overwrite a newer status until the next event;
* `CalendarsAgree` after a dropped enqueue or overlapping saves, and
  `StaleIsKnown` after an answer inside a save: not claimed by the properties.

## 5. Not modelled

* Seed, release and CI scripts: one shot, no state of their own to protect.
* Rendering, mail templates, translations, observability: functions of their
  input. Text and layout are left out everywhere unless a property is about
  them (`IcsText`, `MonthView`'s lanes).
* In parts: the composer's date and reminder fields; the components and
  properties of an .ics file beyond their text; organization settings; the
  Upstash limiter behind the same call as the in-memory one; Better Auth's own
  endpoints, of which the models have what this repository configures and hooks.
* A transaction of `CalendarSeries` is one step: the interleavings of single
  statements of two transactions under READ COMMITTED are modelled only where
  the code's own argument is about them (`Calendars`, `Guests`, `Billing`).

## 6. What is left

* Run composites whose components meet: an account's deletion through
  `Billing`, `StoredFiles` and `JobQueue`; a save through `EventRows` into
  `ReminderDispatch`'s ledger; a sweep that dispatches what `ReminderDue` found.
* A proof that `Recurrence`'s walk finds what the criterion admits, once its
  periods are written as functions over bounded intervals instead of recursively.
* More than one job in `Progress`, and statement-level interleavings of
  `splitSeries`.
