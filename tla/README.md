# A formal model of RuleBeat

RuleBeat runs rules (KQL queries and their relatives) against an Azure estate,
on demand or on a schedule, keeps the findings in a database and tells
notification channels what is new. This directory holds TLA+ modules of the
parts of it where ordering, crashes and concurrency decide what is true, the
TLC configurations that check them on small instances, and TLAPS proofs of the
properties that matter most for every size of the instance.

All paths below are relative to `src/packages/web/lib/` unless they start with
`src/` or `docs/`.

| module | what it is |
| --- | --- |
| `RunLifecycle` | a run's row, its executor, recovery and the notification dispatch, over several containers |
| `NotificationOutbox` | what the outbox promises: the abstract specification of `RunLifecycle` |
| `RunLifecycleProofs` | three safety invariants of `RunLifecycle`, and that it implements `NotificationOutbox` with one container |
| `FindingLifecycle` | what overlapping scans and operators make of the findings and their events |
| `ScheduleClaim` | one schedule under the ticks of several containers, "Run now", edits and crashes |
| `Recurrence` | `computeNextRun` over the local calendar, against a declarative definition |
| `ScheduleProofs` | three action properties of `ScheduleClaim`, the correctness of `Recurrence` for every calendar and zone, and that the one's plans are the other's occurrences |
| `SqliteGate` | the gate before the one SQLite connection, microtask by microtask |
| `SchemaUpgrade`, `FindingUpgrade`, `Startup` | what a start does to a database of any earlier release: its tables, its findings, and both through crashes, failures and a spell on the old release |
| `DatabaseProofs` | mutual exclusion and isolation of `SqliteGate`; all five invariants of `Startup` |
| `Library` | Personal rules and Library requests, under overlapping requests on either database |
| `LibraryProofs` | all of `Library`'s properties |
| `Access` | people, their Role, what they hold, and the mirror of their Azure assignments |
| `AccessProofs` | `Access`'s safety properties |
| `ScopedRun` | a scan by someone whose access is not everything, over a copy of Azure's tree that may be behind |
| `ScopedRunProofs` | its three safety properties, for every tree, rule and set of grants |
| `RuleVersions` | a shipped rule through syncs, releases, starts and Admins |
| `RuleVersionsProofs` | all of `RuleVersions`'s properties |
| `ReadSession` | what a screen of findings shows of the reads it has under way |
| `FindingProofs` | an invariant and three action properties of `FindingLifecycle`; an invariant and an action property of `ReadSession` |
| `MC...` | what TLC needs besides: symmetry sets, small plans, trees, calendars, histories |

---

## 1. Inventory

### 1.1 The process and its scheduling

The program is one Next.js server per container. Within a container JavaScript
runs on one thread, so a function is atomic between two `await`s and no
further; every database statement and every query of Azure is an `await`. All
durable state is in one database, SQLite (a single writer, guarded by a gate in
the process) or Postgres. `docs/public/install.md:402` supports two containers
on one Postgres database for as long as a rolling deploy takes; some of the
code (claims, heartbeats) is written for any number. Every container has a
30-second scheduler tick and a module-level `scanLock`: it executes one scan at
a time.

### 1.2 Components

| component | code | state it keeps | operations | interacts with | what is hard | correct when |
| --- | --- | --- | --- | --- | --- | --- |
| Run executor | `run-executor.ts`, `schedule-runs.ts` | `schedule_runs`: status, heartbeat, fingerprints, notify status | `executeTarget`: start, heartbeat, scan each category, record progress, finish | calls the category scan; leaves an outbox entry to dispatch | crash between any two statements; another container closing the row | every run closes; what it recorded is announced |
| Run recovery | `startup-recovery.ts`, `src/packages/web/instrumentation.ts` | none of its own | close stale runs; dispatch due entries; at startup and on every tick | rewrites the executor's rows, calls dispatch | two recoveries at once; a late heartbeat | only dead runs are closed; nothing stays due |
| Notification outbox | `notifications/dispatch.ts` | `notify_status`, `notify_claimed_at` | claim, send, mark sent, take over a stale claim | fired by executor and recovery | takeover racing a slow sender | one holder at a time, at least one attempt |
| Notification channels | `notifications/send.ts`, `format.ts`, `db/notification-channels.ts`, `db/notification-deliveries.ts` | channels, delivery log | format, post with retries, log | called by dispatch | delivery is outside the program | a failed send is logged |
| Category scan | `scan-runner.ts`, `finding-rows.ts` | the saved scan of a category | load rules, run them, sync, refresh the snapshot | rules, engine, findings, posture | rules change while they run | results belong to the rules that ran |
| Findings lifecycle | `db/findings.ts`, `finding-kinds.ts` | `findings`, `finding_rows`, `finding_events` | `syncScanFindingsDetailed`, removal for a rule | category scan, rules | partial results; overlapping syncs; moved rules | fixed only on proof; events replay to the table |
| Rule engine | `src/packages/core/src/engine/*` | none | run a rule, classify its outcome | Azure clients | incomplete answers | an outcome never overstates what was seen |
| Rules | `rules.ts` | `rules` | create, edit, move, enable, delete, import | findings | editing what a scan holds loaded | a rule and its findings go together |
| Scheduler, schedule claims | `scheduler.ts`, `db/schedules.ts`, `schedule-target.ts` | `schedules`, `scanLock`, the ticking flag | tick, claim, run, run now, advance, CRUD, `computeNextRun` | executor, recovery | two ticks on one row; edits during a run; calendars | an occurrence runs once; edits are honoured |
| SQLite transaction gate | `db/exec.ts`, `db/client.ts` | the promise chain, the in-transaction flag | settle, run, transaction, exclusive | everything that writes | a wait and the statement after it are two steps | no foreign statement inside a transaction |
| Posture | `db/snapshots.ts`, `dashboard-data.ts` | a snapshot per day and scope | refresh, read | scan, clear, rules | read, then write, over awaits | the day's last snapshot is the latest picture |
| Rule versions, catalogue | `rule-versions.ts`, `pack-versioning.ts`, `shipped-catalogue.ts`, `builtin-rules.ts`, `db/recorded-versions.ts`, `db/pg/seeds.ts` | a version per rule, recorded definitions | sync, release, seed at a start, switch | rules, starts | rules dropped and shipped again; a start beside a serving container | enabled rules stay; a version means one query |
| Personal rules, Library requests | `db/personal-rules.ts`, `db/library-requests.ts`, `db/library-request-cleanup.ts` | drafts, requests | submit, approve, reject, withdraw | rules, access | approval against an edit of the target | a request is decided once |
| Access model | `access.ts`, `access-model.ts`, `rbac.ts`, `run-scope.ts`, `db/role-assignments.ts`, `management-group-hierarchy.ts` | assignments, the management-group tree | containment, run scope | scans, every route | a stale tree | a scoped run touches only what it covers |
| Access mirror | `access-mirror.ts`, `access-mirror-refresh.ts`, `db/users.ts` | mirrored Azure assignments | refresh by the scheduler, at sign-in, when an Admin links an account | access model | a slow read overtaking an Admin's change, or a newer read | hand-made changes stand; the mirror catches up |
| Suppressions | `suppressions.ts` | suppressions with an expiry | add, expire, filter | dispatch, dashboards | | |
| Scan history | `scan-history.ts`, `db/scan-snapshots.ts`, `db/scan-compare.ts`, `db/scan-blob-history.ts` | saved scans | append, prune, compare | category scan | | |
| Sign-in | `password.ts`, `provision-user.ts`, `db/users.ts`, `db/local-accounts.ts`, `db/sso-providers.ts` | users, accounts | provision, sign in | | | |
| Secrets and guards | `secret-box.ts`, `ssrf-guard.ts`, `azure-credential.ts`, `origin-check.ts` | none that evolves | | | | |
| Schema, migrations | `db/migrate.ts`, `db/schema.ts`, `db/fingerprint-rekey.ts`, `db/finding-rows-copy.ts`, `db/scan-findings-copy.ts`, `db/pg/bootstrap.ts` | the file's shape, markers of what was done | every start: rename, rebuild, convert, backfill | everything stored | a stop between two statements; a statement that fails and is swallowed; going back a release | nothing stored is stranded, renamed findings keep their age |
| Saved views, dashboards, queries | `db/saved-views.ts`, `db/dashboards.ts`, `db/saved-queries.ts`, `db/query-runs.ts` | independent rows | CRUD | | | |
| Query tools | `explorer-session.ts`, `compare-session.ts`, `snapshot-session.ts`, `written-query.ts` | the request on screen, the answer shown, reads under way | request, publish, retry, refresh, lazy reads | the read routes | an older answer arriving after a newer request | the newest request's answer is shown in the end |
| Demo mode | `demo/reset.ts`, `demo/live-reset.ts`, `demo/replay.ts` | a synthetic tenant | reset | shares `scanLock` and the gate | | |
| Azure clients | `src/packages/core/src/clients/resource-graph.ts`, `.../net/fetch-retry.ts`, `.../kql.ts` | none | query, retry | engine | | |
| HTTP API, user interface | `src/packages/web/app/` | none | validate, call the above | | | |

`PROJECT.json` gives each one's status, and lists under `hazards` every place
found so far where the code is exposed to something a test would hardly reach,
with the properties that watch it, or why none does (section 14).

### 1.3 How the parts meet

A tick (`scheduler.ts`, `tickOnce`) runs both recovery passes, lists the due
schedules and executes them one after the other under `scanLock`.
`executeSchedule` claims the row by a conditional `UPDATE` on `next_run_at`,
calls `executeTarget`, and moves the row on by a second conditional `UPDATE`.
`executeTarget` inserts a `schedule_runs` row, scans every category of the
target (`runCategoryScan`, which commits findings through
`syncScanFindingsDetailed`), writes the new fingerprints of each category on the
row as it goes, and closes the row with an outbox entry. `dispatchAndMarkSent`
is started after that and not awaited; recovery calls the same function and
awaits it. Everything below is about what these calls do to each other's rows.

---

## 2. Plan

In the order in which the modules were built; each has a section below.

| # | module | composes | state |
| --- | --- | --- | --- |
| 1 | `RunLifecycle` | `INSTANCE NotificationOutbox`, which it implements | checked; safety and the refinement proved |
| 2 | `FindingLifecycle` | | checked; proved |
| 3 | `ScheduleClaim` | | checked; proved |
| 4 | `Recurrence` | stands for the `plan` of `ScheduleClaim` (`PlansAreOccurrences`) | checked; proved |
| 5 | `SqliteGate` | discharges `Serial` of `FindingLifecycle`, and the SQLite half of `Library`, `Access` and `RuleVersions` | checked; safety proved |
| 6 | `SchemaUpgrade`, `FindingUpgrade`, `Startup` | the second extends the first, the third both | checked; proved |
| 7 | `Library` | | checked; proved |
| 8 | `Access` | | checked; safety proved |
| 9 | `ReadSession` | | checked; safety proved |
| 10 | `ScopedRun` | the `covered` of `FindingLifecycle` | checked; safety proved |
| 11 | `RuleVersions` | | checked; proved |

Worth doing next: posture snapshots beside the findings table (the race at
`db/snapshots.ts:75`), the deliveries of one channel with their retries, and the
rows of a comparison of two scans.

Each component's `TypeOK` is proved where its proof module has a `TypeCorrect`;
no run spends a property on it.

---

## 3. RunLifecycle: runs, recovery, outbox

### State and actions

`rows` is the `schedule_runs` table, `main[p]` the tick, scan or startup
container `p` is in (its `pc` is the `await` it stands at, the other fields are
its local variables), `task[<<p, origin, r>>]` a `dispatchAndMarkSent` call.
`durable` is the findings table, reduced to "run `r` committed new findings of
category `c`". `recorded`, `attempted`, `own` are history.

One action is one database statement with the synchronous code around it:
`StartRun` (insert and prune: no other statement reads what lies in between,
and the case where the prune throws is `StartThrows`), `Heartbeat`,
`CategorySynced`, `ProgressRead` and `ProgressWrite` (the read-merge-write of
`recordCategoryProgress` is two steps), `FinishScan` (`finishRun`), `Announce`,
`CatchFinish`; `ListStale`, `RecoverInterrupted` for pass 1 and `ListDue`,
`RecoverPending`, `EndSweep` for pass 2; `ClaimWon`, `ClaimLost`, `Send`,
`MarkSent` for a dispatch. `Crash` drops a container's memory at any point.
`CategoryThrows`, `FinishThrows`, `CatchThrows`, `SweepThrows`,
`DispatchThrows` and `StartThrows` are database calls that throw, each with the
handler the code has for it.

Time is relative: a heartbeat and a claim carry their age, and ages saturate one
tick past the largest value a comparison can distinguish, so time is unbounded.
`BeatBound`, `SendBound`, `PassBound` are how long a live container keeps a
heartbeat, a live dispatch, and a recovery pass: assumptions about the
environment (`MayPass`), not facts of the code, and theorems name the ones they
need. A sweep stamps a claim with the time its pass began (`Stamp`), as the code
does.

Abstracted: what a finding is (a category's new findings are one batch, so that
"changed" and "new" batches are one); formatting and delivery; counts and
messages on a row; which channels exist, reduced to whether a channel wants
advisories, chosen anew at each use.

### Runs

| run | instance | checks |
| --- | --- | --- |
| `overlap` | 2 containers, 2 runs, 1 category, 1 crash, 1 failed call, `KeepRuns` 1 | `OneHolder`, `RecordedIsOwed`, `ReapsOnlyDead` |
| `single` | 1 container, 1 run, 2 categories (one holds only advisories), 2 crashes, 1 failed call, fairness | `KeepsPromise` (implements `NotificationOutbox`), `RunsClose`, `OutboxDrains` |

Bounds. Two containers are the supported overlap and the least that race; two
runs with `KeepRuns = 1` make the second start prune the first. Two categories
in `single` are the least for which progress on one can overwrite progress on
the other. With one run nothing is pruned in `single`; pruning is exercised in
`overlap`. One crash is enough to have a dead executor beside a live
container; two in `single` let a container die again while recovering.

`KeepsPromise` maps a run's row to `open`, `owed` or `closed`
(`Outbox == INSTANCE ...` at the end of the module): what is gathered is never
dropped, owed entries close only after an attempt, and only a failed database
call may drop a batch (the outer `catch` of `executeTarget` closes the run with
nothing in it).

Fairness (`FairSpec`): weak fairness of each container's continuations (the
event loop runs what is pending), of its sweep (the 30-second timer), heartbeat
and dispatch steps, of `Restart` (the platform restarts a dead container:
`docs/public/install.md` deploys it that way) and of time. Weak is enough:
nothing here waits for a resource that is freed and taken again.

The system never stops (a container can always restart or sweep), so deadlock
is checked in both.

### What is proved (`RunLifecycleProofs`)

For any containers, runs, categories and bounds:

- `TypeCorrect`: `Spec => []TypeOK`. `TypeOK` alone is not inductive: the
  writes of `executeTarget` go to `rows[main[p].run]`, so `TInv` adds `HasRun`
  (an executing container has a run).
- `ClaimIsExclusive`: `Spec => []OneHolder`, assuming `SendBound <= Stale` and
  `PassBound <= Stale`. The inductive invariant `HInv` is `TInv`, `NoEntry` (a
  row that is not there has no outbox entry), `HeldClaims` and `OneHolder`.
  `HeldClaims` is the heart: while a dispatch owns an entry its hold is within
  its bound, and the entry, unless it was marked sent or pruned, is `sending`
  with a claim exactly as old as the hold. A takeover needs a claim older than
  `Stale`, which no owner's is.
- `OnlyDeadAreReaped`: `Spec => []ReapsOnlyDead`, assuming `BeatBound <= Stale`.
  `RInv` adds `ExecutedFresh` (the row of a run being executed was started, and
  while it is running its heartbeat is within `BeatBound`) and `ListedStarted`
  (what a pass lists had been started, so no later `StartRun` can choose it).
- `RecordedStaysOwed`: `Spec => []RecordedIsOwed`, assuming `BeatBound <= Stale`.
  `OInv` is `RInv` and, until a database call fails, `Owing`: a run has one
  executor (`OneExecutor`), the row owes what was recorded (`RowOwes`), and
  whatever a container or a dispatch carries and may come to write back still
  holds it (`ProcCarries`, `TaskCarries`). The bound is needed because a
  recovery that closed a run still being executed would write back the
  fingerprints it listed, without those recorded since.
- `OneContainerKeepsPromise`: `Spec => KeepsPromise`, assuming one container
  (`Alone`). Initial states map to initial states, and every step maps to a step
  of `NotificationOutbox` or to a stutter. `KInv` adds `Kept` to `TInv`: what the
  executor remembers of its row is what the row says (`RunKept`), what a pass
  listed is still so (`ListKept`), a dispatch holds what is on the row of a run
  that is over, and has handed it over by the time it marks it (`TaskKept`); a
  row never written has nothing on it (`RowKept`). With two containers the
  refinement fails (section 13, `NeverTwiceFromLive`).

The three bounds are assumptions of the code's design: a heartbeat interval well
under `STALE_AFTER_MS`, sends that time out. Only model-checked: `RunsClose` and
`OutboxDrains`, which are liveness.

---

## 4. FindingLifecycle: scans and the findings table

### State and actions

A finding is a rule and a resource (`computeFingerprint`). `estate` is what each
rule's query would return now, `findings` the table with each finding's rows,
`trail` the `finding_events` table replayed per finding, `scan[s]` the
`runCategoryScan` scanner `s` is in.

`Begin` loads the enabled rules of a category, perhaps narrowed to some rules
and to the resources the run's starter covers; `QuerySucceeds` and
`QueryIncomplete` run one rule; the sync is `Classify` (begin and read what was
seen), `Upsert` (write it under row locks, then read the stale), `Commit`
(resolve, insert events, commit). `Stop` is any throw, deadlock break or crash
before the commit. With `Serial` (SQLite) a transaction excludes every other
one; without (Postgres, read committed) they interleave between statements and
`MayLock` gives the row locks of the upsert. Operators move, toggle, clear and
delete rules; `Drift` changes the estate at any time. `watch` and `stood` record
what really was there, so the properties compare the table with the truth and
not with what a query returned.

Abstracted: `state` and `advisory` findings live alike and are one kind,
activities the other; the outcomes `failed`, `capped` and `invalid` differ only
in how much of the truth they return and are one action that returns some of
it; a rule's query does not change; an operator's transaction does not overlap a
sync's (on Postgres it may). Left out: the silent backfill of old rows, event
retention, the read side, the snapshot refresh and the rule status writes.

### Runs

| run | instance | checks |
| --- | --- | --- |
| `edits` | 1 scanner, SQLite, 2 rules (one of activities), 1 resource, 2 row values, 2 categories, 2 drifts, 1 edit | `EventsAgree`, `FixedOnlyOnProof`, `NothingLingers`, `GainsAreReal` |

Bounds. Scans are unbounded in number; two drifts let a finding go and come
back, or lose a row and regain it; one edit places one move, toggle, clear or
delete anywhere in a scan. Rules interact only through the operators, and
findings of one rule never interact, so one resource per rule is enough for
these properties; two row values are the least with which a set of rows can
shrink without emptying.

Deadlock is checked: a scan can always begin. No fairness, no liveness: nothing
promises that a scan completes.

### What is proved (`FindingProofs`)

For any scanners, rules, resources, edits and bounds:

- `TypeCorrect` and `FixedHasProof` (`FixedOnlyOnProof`), on either database and
  with any number of scanners. `IInv` is `TypeOK` and, of each scan, `Proof(s)`:
  what the queries returned really was there at some moment since the scan
  began, and what a resolve is about to close belongs to rules that ran to
  success, is covered and was not seen.
- `EventsTellTheTable` (`EventsAgree`) and `NoneLingers` (`NothingLingers`),
  assuming `Alone`: transactions exclude each other, or one scanner runs. `AInv`
  adds `Current(s)`: a transaction that is alone decides on the table as it is.
  Without it a sync writes events for a table that another has changed since.
- `GainsWereAway` (`GainsAreReal`), assuming `OneScanner`. `SInv` adds `Held(s)`
  and `Stood`: the rows that have been there since a complete scan opened the
  finding are stored. With two scanners even serial transactions are not enough:
  a row that arrives between one scan's query and another's opening of the
  finding is announced as gained though it was never away in between.

## 5. ScheduleClaim and Recurrence

### ScheduleClaim: state and actions

`row` is one schedule; `job[<<p, "tick">>]` and `job[<<p, "manual">>]` are what
container `p` does with it, `edit` an `updateSchedule` call. The important
distances are modelled: a tick reads the row (`ListDueSchedules`), computes the
next occurrence from what it read (`RunOnce`), claims (`ClaimWon`, `ClaimLost`),
runs, computes again from the same read (`Finish`) and moves the row on
(`AdvanceScheduleAfterRun`); an edit reads, merges and computes (`MergeEdit`),
and writes by id (`WriteEdit`). Time and every other step may come between any
two. `Busy` is `scanLock`: one job per container past its wait. A schedule's
recurrence is the set of its occurrences. `served` and `ranUpTo` are history
since the last edit.

| run | instance | checks |
| --- | --- | --- |
| `schedules` | 2 containers, instants 0..3, 2 plans (one with an earlier end), 2 edits, 1 "Run now", 1 crash or failed run | `RunsOnce`, `StartsEnabled`, `SkipsOverrun` |

Bounds. Plans `{1, 3, 5}` and `{1, 3}` within instants 0..3 give two
occurrences to serve, one to overrun, and an end that an edit moves. Two edits
let a schedule be disabled and enabled again between a read and its claim.

Two limits of what these properties say, both because a claim compares
`next_run_at` only and a "Run now" may claim a null: a null seen before an edit
and again after another hides both. `StartsEnabled` is therefore stated up to
the first "Run now" (later, a "Run now" of a disabled schedule can put back the
instant a late claim compares with); and `RunsOnce`, checked with a "Run now"
for two containers, would not hold for three.

The model has an end (the schedule deleted and the clock at `MaxTime`), so
`CHECK_DEADLOCK` is off. Liveness is not stated: a waiting "Run now"
polls `scanLock` every 250 ms against ticks and other requests, and nothing in
the code orders them.

### What is proved (`ScheduleProofs`)

For any containers, plans, edits, faults and bounds:

- `NextRunIsNext` (lemma): `NextOccurrence` gives null or an occurrence after
  `from`, and none comes before it. From the well-foundedness of `<` on `Nat`.
- `TypeCorrect`: `Spec => []TypeOK`. `TInv` adds that an edit about to be
  written has a plan and that a tick past its listing has an instant it read.
- `NeverStartsDisabled`: `Spec => StartsEnabled`, without assumptions.
- `RunsOnceWithoutRequests`, `SkipsOverrunWithoutRequests`: the two other action
  properties when `MaxManual = 0`.

The three share one inductive invariant, `Inv == TInv /\ (no request yet =>
SInv)`. `SInv` says that `next_run_at` lies after everything claimed and after
the end of every run whose claim stood (`RowAhead`); that a disabled schedule's
is null, in the row and in a pending edit (`OffHasNone`); and of each tick, that
what it claims lies after what it read and overlooks nothing still to come in
its plan, so that its final move is forward (`JobOk`). The last part is what
relates the two computations of one run: the second can only confirm or pass
the first. TLC checked `Inv` on the instance of `schedules` before it was
proved.

### Recurrence

`computeNextRun` works on local dates. `Local` and `Instant` are JavaScript's
conversions with a standard offset and one period of daylight saving time
(a skipped hour is read with the offset before the change, a repeated one is
the first). The branches `Once`, `Hourly`, `Daily`, `Weekly`, `Monthly` follow
the code's arithmetic, the windows of the weekly search and the clamp to a short
month included; `Occurs` is the reference: on which days, and at which instant,
a recurrence occurs.

| run | instance | checks |
| --- | --- | --- |
| `calendar` | 3 zones (UTC, with daylight saving time, west of UTC), 2 starts, intervals 1 and 3, 3 sets of weekdays, days 1, 15, 31, with and without an end; every hour of 150 days of 4 hours | `NextIsFirst` |

Bounds. January 30 to May covers months of 28, 30 and 31 days, both changes of
the clock and several periods of each interval. A day of 4 hours scales time
only: no comparison of the code depends on 24 but the one in `DaysBetween`,
which is parameterised by it. Minutes, leap years and offsets that are not whole
hours are left out. `NextIsFirst` leaves out what the code does otherwise: a
daily recurrence in a zone with daylight saving time (section 13), and an end date
west of UTC (its UTC midnight falls on the local day before). A monthly
schedule's start fixes its first month and its hour, not its day, as in the
code.

`CHECK_DEADLOCK` is off: the hours asked about end at `Horizon`.

Proved (also `ScheduleProofs`), for any length of a day, zones less than a day from
UTC, starts, intervals, sets of weekdays, days of the month, month lengths, end dates
and change of the clock, and at whatever hour it is asked:

- `NextRunsAreFirst`: `AskSpec => []NextIsFirst`, with the property's two exceptions.
  `AskedIsFirst` proves more than the run looks at: no instant at all between the
  question and the answer, however far, is an occurrence, and after a null none ever is.
- `PlansAreOccurrences`: the plan of a schedule in `ScheduleClaim` may be the set of
  its recurrence's occurrences. `NextOccurrence` of that set, which `ScheduleClaim` takes
  for `computeNextRun`, is what `ComputeNextRun` answers.

There is one lemma per branch (`OnceIsFirst` to `MonthlyIsFirst`), each from a few
facts about division (`DivUnique`, `Multiple`), the clock (`DayIs`: the day of a
local instant; `AtOrder`: a later day's instant is later, across either change of
the clock) and months (`MonthUnique`). The weekly search needs a least element:
`Least` gets it for every set of naturals from the well-foundedness of the strict
subset order on finite sets (of the intervals `0..x`), where an induction would need
a theorem the provers cannot instantiate.

---

## 6. SqliteGate: the one connection

`db/exec.ts` lets statements outside a transaction wait in `settle()` until no
transaction is open; transactions (`inTransaction`, `inReadTransaction`) and the
Demo's Reset (`withExclusiveSqlite`) take the lock. A lock that is tested in one
microtask and relied on in a later one is only as good as what can run in
between, so the model's step is one microtask: `queue` holds the continuations to
run, `waiting` those that `await txLock.held`, and `Releases` moves them over in
the order they came. `Start` is a request or timer that begins calls while the
queue is empty; `Resume` an ended call whose caller goes on to another one in the
same drain.

| run | instance | checks |
| --- | --- | --- |
| `gate` | 2 statements, 2 transactions of up to 2 statements, 1 Reset, 2 follow-on calls, fairness of `Microtask` | `Isolated`, `EveryCallEnds` |

`Isolated` says that from its first statement to its end a transaction has the
connection to itself. It holds although a statement may still run between a
`BEGIN` and the transaction's first statement (`NeverJoins`, section 13): that
statement is queued before it. Two of each kind are the least with which one of a
kind overtakes another. The only fairness is that the event loop runs its
microtasks. Assumed: a transaction awaits nothing but statements, as all those of
the code do. Left out: `inSnapshotRead`, transactions joined from inside a
transaction, and Postgres, which has no gate.

Proved (`DatabaseProofs`), for any calls and bounds: `TypeCorrect`,
`OneAtATime` (one transaction at a time is begun and not ended) and
`HasItToItself` (`Isolated`). `IInv` is `TypeOK`, `Holder` (who is inside holds
the lock), `Queues` (a call is queued or waiting, once) and `Ahead`: a statement
that settled before the lock was taken is queued ahead of the holder, who has run
nothing of its own yet. `EveryCallEnds` is liveness and only checked.

---

## 7. SchemaUpgrade, FindingUpgrade, Startup: upgrades

`runMigrations` (`db/migrate.ts`) runs on every start, on a file of any earlier
shape. On SQLite each statement commits on its own, one that fails is swallowed,
and the container may stop between any two; the next start begins at the top.
`SchemaUpgrade` is the order of the steps that rename, rebuild and convert tables
(plain `ADD COLUMN` steps lose nothing and are left out), `FindingUpgrade` the
steps on what is stored: the rename of a rule id with its findings, suppressions
and events; the move to case-insensitive fingerprints; the copy of rows and of a
scan's findings out of their blobs; the two backfills. `Startup` composes them
with everything around: `Init` picks a vintage, `Crash` and `CrashInRemap` stop a
start, a step may roll back, scans run while it serves, and `GoBack` spends a
while on the previous release, which knows nothing of the new columns.

| run | instance | checks |
| --- | --- | --- |
| `upgrade` | one stop, one rolled-back step, 2 scans, 1 spell on the previous release; 2.8 million states | `NothingStranded`, `NamesFollow`, `AgeKept`, `RowsServed`, `ScansReadable` |

A vintage varies one family of tables at a time (rules, snapshots, findings,
suppressions, schedules, scans), which is sound because no step of one family
reads what a step of another writes. `truth` records what the scans really saw,
so that `AgeKept` and `RowsServed` compare tables with history.

`Init` leaves out three kinds of database on purpose: one whose findings are split
over two spellings under a rule whose rename is also pending (they collide in
`remap`, `db/migrate.ts:98-101`, and a finding's age is stranded); blobs whose
stored fingerprint is not today's when the history is first rebuilt
(`db/findings.ts:679`); and rules of a released sample whose id is still to be
minted after a stop (`db/migrate.ts:1255`). A stop inside `remap` leaves the event
behind (`torn`), and `remap` does not touch the pending lists of `schedule_runs`
(`db/migrate.ts:80`); both are in the model and excepted by name in `NamesFollow`.
The last reconciliation of the backfill counts the newest scan once more
(`db/findings.ts:770`), so `times` is compared only where it did not run. Postgres
runs the same plans in one transaction (`db/pg/bootstrap.ts`) and is not
modelled, nor are `placeFindings`, `buildColumnCatalogue` and `upgradeAccess`.

Deadlock is checked, and there is no fairness.

Proved (`DatabaseProofs`), for any number of stops, rolled-back steps, scans and
spells on the previous release, and any spellings:

- `ScansStayReadable` (`ScansReadable`). `ScansInv` adds that a scan without
  records of this release has none at all (they would be lost when its blob is read
  instead), that `truth.found` is as long as the history, and the types this takes.
- `NamesAreFollowed` (`NamesFollow`). `NamesInv` says at every step of a start which
  names a suppression, the last event and the pending list may still have: the renamed
  rule's until the loop over the findings is through, the case-sensitive ones until
  `rekeyed` is marked, and only while the findings they name are there to be moved.
- `NothingIsStranded` (`NothingStranded`). `KeptInv` is one conjunct per family of
  tables (`RulesKept`, `DaysKept`, `FindingsKept`, `SuppressionsKept`, `SchedulesKept`),
  each the table of the file's possible shapes by the point a start has reached:
  before a rebuild everything is in the table or staged whole beside it
  (`Rebuildable`), and a shape once reached is kept by the steps of a later start.
  Of the rules, what a row runs (`Meaning`) is kept while its columns are renamed, added
  and compiled. `DbShape` and the lemmas `SameTables`, `Adding`, `RenamingColumn`,
  `Dropping`, `Rebuilding` reduce a step to the one table it touches.

- `AgeIsKept` (`AgeKept`) and `RowsAreServed` (`RowsServed`). `AgeInv` holds at every
  step of a start what the two say of the one that got to serving. The finding is told
  by one row, which is where scans look for it or waits under its first name
  (`OneTells`); by two, one for each spelling, still to be merged (`TwoTell`); by
  nothing but the blobs of an older release's two scans (`InBlobs`); or it was never
  seen (`NoneTold`). Each row is `Sound`: its rows are where the copy put them unless
  it is `Stale` and will be copied again. Until a replay, either no scan of this release
  saw the finding or one did and left a scan the replay refuses (`HasScanLeftOut`); this
  is why a replay never loses what the tables already tell. `RowsAgree` holds from a
  successful copy to the end of the start, `RuleBy` says by which step no finding bears
  the old id. One lemma per action follows (`AgeRemapped`, `AgeRekeyed`, `AgeCopied`,
  `AgeBackfilled`, `AgeFound`, ...). The replay folds over a history of any length, but
  only its first two scans can hold a finding: `ReplayStart` unfolds those, and
  `NothingMoves` carries the result to the end. The merge of spellings adds over a set of
  at most two, which `SumOfTwo` unfolds.

The vintages stay the concrete files of the upgrade tests, and the exceptions named
above (`Settled`, `torn`, a copy that rolled back) are those of the properties.

---

## 8. Library: Personal rules and Library requests

A call is one HTTP request, in three moments: the route checks the person and
perhaps reads a rule (`Receive...`), the transaction opens and reads again what
it decides on (`Begin`, `Refuse`), and it writes (`Commit...`). On SQLite a
transaction has the database to itself (section 6). On Postgres it runs at READ
COMMITTED and is kept out only by the advisory locks it takes (`Locks`,
`CanBegin`), so that what it read may be stale when it writes.

| run | instance | checks |
| --- | --- | --- |
| `library` | both databases, 1 author, 1 Personal rule, 4 library rule ids (one shipped, one custom), 2 requests, 3 names, 2 callers, 4 calls | `OneOpenPerRule`, `NothingDangles`, `CopiedOnce`, `NoNewDuplicate`, `DecidedOnce` |

Two callers are the least that race, and four calls let two races follow each
other (send and send, then approve against withdraw). `CHECK_DEADLOCK` is off:
the calls are bounded. `DecidedOnce` and half of `NothingDangles` are stated for
SQLite: `deleteUser` takes no request lock, although
`db/library-request-cleanup.ts:10` says its callers do, and a run that outlives
its Personal rule can leave results on Postgres. In the model and not excluded
by a property: a copy of a Personal rule that is deleted meanwhile still adds a
library rule. Left out: the query backend, validation, audit entries.

Proved (`LibraryProofs`), for any people, rules, requests, names and callers: all
five. `IInv` is `Typed`; `Requested` (a send that looked holds the request lock,
so what it saw still holds); `Named` (the same of names and the name lock);
`Pointing` (a pointer to a library rule and a copy under way name a live rule);
`Resulting`.

---

## 9. Access: people, roles and the mirror

An Admin holds everything and has no rows; a Viewer or Editor holds rows an Admin
chose, or those the last read of a Linked account found. A read takes as long as
Azure takes (`ReadAzure` or `FailToRead`) and what it found is written afterwards
in one transaction that looks at the person again (`CommitRefresh`,
`CommitFailure`). `StartPass` and `NextPerson` are the scheduler's pass,
`SignIn` and `ReceiveMirror` the two other readers; `ReceiveRole`,
`ReceiveManual`, `ReceiveCreate`, `ReceiveDelete` the Admins' requests, with what
their routes read first.

| run | instance | checks |
| --- | --- | --- |
| `access` | SQLite, 2 people, 2 accounts, 2 scopes, 2 callers, 3 requests, 1 change in Azure, 1 failed read, fairness | `AdminRemains`, `RowsFitSource`, `HandMadeStands`, `MirrorCatchesUp` |

Two people are the least with which a last Admin can be removed by two requests
at once; two accounts let one be relinked under a read. Fairness is of the
scheduler's pass, its next person, and each request's next step; `MirrorCatchesUp`
follows because every pass reads everyone again, whatever an older read wrote
last. `CHECK_DEADLOCK` is off, the requests being bounded. The module also has the
Postgres transactions (`LockAdmins`, and a read of the role before it): there the
last Admin can be removed, the role being read before the lock
(`db/users.ts:333-339`), so the invariants are stated for SQLite. Time between
passes, and how an Azure assignment becomes a Scope, are left out. A demotion
that finds the person is no longer an Admin gives what the request says all the
same, Everything when it chose nothing.

Proved (`AccessProofs`), for any people, accounts, scopes and callers:
`TypeCorrect`, `AnAdminRemains`, `RowsFit`, `HandMadeChangesStand`. `IInv` is
`TypeOK`, `CallsOK`, `OneTransaction`, `Current` (an open transaction's reading of
the person still holds), `AllFit` and `AdminRemains`. `MirrorCatchesUp` is
liveness and only checked.

---

## 10. ScopedRun: scans by those who may not scan everything

The rule goes to the overlap of its own scope and the runner's access
(`scopeForRule`); what comes back is kept where the access reaches; an open
finding there that did not come back is fixed. Azure reads a management group by
its tree; RuleBeat by a copy (`management-group-hierarchy.ts`) that may be an hour
old, read once when the request comes in and again when the scan begins. `tree` and
`copy` are those two, `reading` the refreshes under way, `run` the request and
scan, `place` where the one finding sits. What the definitions compute (containment,
the overlap, what is asked, what the resolve reaches) are operators over the tree.

| run | instance | checks |
| --- | --- | --- |
| `scopes` | 3 management groups, 2 subscriptions, one of them not there yet; each of 5 rules, 5 places, 6 sets of grants; 1 change in Azure, 1 Admin's refresh, 1 failed refresh, 1 run, fairness | `ScansTheOverlap`, `ChangesOnlyTheirs`, `FixedWhereLooked`, `CopyCatchesUp` |

One rule and one place per behaviour suffice: rules and findings do not affect
each other here. A place is a resource, a workspace, a subscription, a management
group or the directory. A chain of two groups under the root is the least with a group
inside a group. `run.steady` says that the copy agreed with Azure from the request
to the answer; `ScansTheOverlap` and the second half of `FixedWhereLooked` are stated for those;
`ChangesOnlyTheirs`, and that nothing is fixed that came back, for every run: this
is where `placedInside` and `accessFilterSql` must draw one line. What Azure answers
is external: `Asked` lets rows of a management group come back when the group is
beneath one that was named and, if `AnswersAbove`, when it is above a subscription
that was read, which the code leaves open; the run sets it, the proofs hold for
both. Fairness: the scheduler's hourly read comes and
a refresh under way ends. An older refresh can overwrite a newer one; the next
read corrects it, which is `CopyCatchesUp`. Left out: unplaceable
findings (Everything only), capped outcomes, several tenants, nodes that disappear, Personal
rule runs and `written-query.ts`.

Proved (`ScopedRunProofs`), for every tree, copy, rule, place and set of grants:
the three safety properties. `IInv` is the types and that a run's access was
resolved from a copy; `SteadyInv` adds the shape of a run under way, that what it
asks was chosen from its access (`Chosen`), and that a steady run's access is up to
date. The lemmas `Nested`, `RequestIs`, `AskedIsTheirs`, `OverlapIsAsked`
and `GroupOverlapIsAsked` are the algebra: what a tree holds below a group below a
group, and the overlap of two requests; `FilterIsInside` is the one line.

---

## 11. RuleVersions: shipped rules through releases

The authors sync a pack at a commit (`Sync`), with a transform that once paired
rules with the wrong queries (`CorrectTransform`), and release the catalogue
(`Release`). An install starts on some release (`BeginStart`, `EndStart`): the plan
of `planRuleSeeding` is a set of actions and `EndStart` executes it, records what
each version runs and applies the correction. On SQLite the start has the database
to itself; on Postgres another container serves meanwhile. Admins `Toggle`,
`Switch`, `Duplicate`, `Edit` and `Delete`.

| run | instance | checks |
| --- | --- | --- |
| `versions` | one rule, both packs, both databases, 3 commits whose query stays, changes, returns or is dropped and comes back, 3 releases | `GoingBack`, `Settles`, `EnabledStands` |

Rules are planned independently, so one is enough; three commits are the least
with which a rule is dropped and shipped again. `ran` records the query that last
ran under each version; `GoingBack` says that this is what is recorded for it, on
SQLite, but for the one corrected version of a row older than versions.
`Settles` is stated for starts with nobody else acting. `CHECK_DEADLOCK` is off: an
install may stay as it is. Left out: several rules' name conflicts, malformed
entries (so also the savepoint of `pg/seeds.ts:146-153`, which skips one action
that cannot be written and goes on with the others), release notes and sort keys, fields of a definition other than the query,
the deletion of findings by the correction. Core's versions, which are numbered by
hand, are taken to rise with every change. The comment on the action `apply`
(`rule-versions.ts:88-89`) says less than the code does: it also writes the kind.

Proved (`RuleVersionsProofs`), for any sources, commits and releases: `TypeCorrect`,
`GoingBackRunsTheSame`, `SecondStartPlansNothing`, `EnabledRulesStand`. `IInv` is
what the pack's file, the releases, the row, the recorded versions and the history
have to do with the source (`Authored`, `Planned`, `Listed`, `Kinds`, `Recorded`,
`Young`); the lemmas `WhenDropped`, `WhenInserted`, `WhenTheirs`, `WhenTuned`,
`WhenFollowed` say what each outcome of a plan leaves.

---

## 12. ReadSession: what a screen shows

`ViewFeed` and `LazyReads` (`explorer-session.ts`), `SnapshotFeed` and
`CompareFeed` hold one answer for the request on screen. The person (`Change`,
`Refresh`, `Retry`, `Dispose`, `Remount`), the pause in typing (`TypingPauses`), the server
(`Answer`, `Fail`, `Store`) and the network (`Deliver`, `DeliverLazy`) step in any
order; an aborted read whose answer is already there is still delivered.

| run | instance | checks |
| --- | --- | --- |
| `screens` | the three feeds, 1 filter, 2 search texts, 3 events shared by changes, stores, failures and departures, fairness | `ShowsTheNewest`, `SettlesOnWanted`, `KeepsAnswer` |

Three events let a request be overtaken, fail and be retried. Fairness: effects
run, the timer fires, the server answers and answers arrive; nobody has to retry.
Paging and conditions are part of the view. `CHECK_DEADLOCK` is off: a screen may
rest.

Proved (`FindingProofs`), for any queries and any number of events:
`TheNewestIsShown` (`ShowsTheNewest`) and `AnswersAreKept` (`KeepsAnswer`).
`ScreenIInv` adds that reads are numbered and none is newer than `latest`
(`Numbered`); that while the newest read is out the screen loads, and that read is of
the current request and, once answered, saw the last refresh (`NewestIsOut`); that nothing is read before the first
request; that a refusal shows nothing; and that a lazy answer of the present epoch was
read since the last refresh (`LazyFresh`). `SettlesOnWanted` is liveness and only
checked.

---

## 13. Divergences

A comment or a page of the documentation states more than the code does. Each is
written as a property beside the ones that hold, but belongs to no run. To see one
broken, name it in the `.cfg` given (as `INVARIANTS` or `PROPERTIES`), with the
constants noted.

| property, `.cfg` | what happens | what is said |
| --- | --- | --- |
| `RestartNeverLoses`, `MCRunLifecycle_single` | A crash after a category's findings are committed (`scan-runner.ts:200`) and before they are recorded on the run (`run-executor.ts:125`): the next scan sees them as open already, and they are never announced. | `docs/public/notifications.md:164`: "A restart delays a notification; it does not lose it." |
| `NeverTwiceFromLive`, `MCRunLifecycle_overlap` with `Run = {r1}`, `Stale = 2`, `KeepRuns = 2`, `MaxDbFail = 0` | Two recoveries list one dead run. `finishRun` (`schedule-runs.ts:206`) writes by id whatever the row holds, so the second sets an entry that is being sent back to `pending`; both send it. | `schedule-runs.ts:243`: "At-least-once, never twice from two live processes" |
| `PartialNeverGains`, `MCFindingLifecycle_edits` | A truncated scan opens a finding with some of its rows (`db/findings.ts:384`); the next complete one announces the rest as gained. | `docs/public/notifications.md:52`: "a partial result never produces a false "gained a row"" |
| `ComebackAnnounced`, `MCFindingLifecycle_edits` with two scanners, `Serial = FALSE` | A sync classifies a finding as open (`db/findings.ts:298`), another fixes it, the first reopens it: no `reactivated` event, no announcement. | `docs/public/notifications.md:50` |
| `NoOrphans`, `MCFindingLifecycle_edits` | A rule is deleted while a scan holds it loaded; the scan commits its findings afterwards and nothing removes them. | `rules.ts:289` |
| `EditWins`, `MCScheduleClaim_schedules` | An edit that leaves the next occurrence where it was (a later end) is overwritten by the finishing run's older view, which disables the schedule. | `db/schedules.ts:371`: "that edit wins" |
| `StrictlyAfter`, `MCRecurrence_calendar` with `Zone <- OnlySummer`, `Intervals = {1}`, `Horizon = 400` | A day's milliseconds lose a day after the change to daylight saving time (`db/schedules.ts:165`): a daily schedule's next run is today's, already past, and it runs on every tick until midnight. | `db/schedules.ts:146`: "the next occurrence strictly after `from`" |
| `NeverJoins`, `MCSqliteGate_gate` | A statement that passed `settle()` runs after the `BEGIN` of a transaction that took the lock in between (`db/exec.ts:39`). `Isolated` bounds the damage. | `db/exec.ts:19` |
| `OldKeysWork`, `MCStartup_upgrade` | The move to today's fingerprints fails; a scan computes today's all the same, opens the finding anew and closes the old one. | `db/migrate.ts:1555` |
| `NoneWaitsForTheGone`, `MCLibrary_library` | A send whose route checked its author before they were deleted commits after the deletion (`db/library-requests.ts:133-176`): its request stays open and nobody can withdraw it. | `db/users.ts:353`: "so none waits for a reviewer on a person who is gone" |
| `NeverOverwrites`, `MCAccess_access` with `Databases = {TRUE}` | On Postgres a refresh reads the person, an Admin sets Manual access, the refresh writes. | `db/users.ts:279`: "so it can never overwrite a hand-made change" |
| `NeverUnasked`, `MCScopedRun_scopes` | A subscription is moved out of the runner's management group; the copy still has it there; Azure, asked by group, does not answer for it; its open finding is marked fixed. | `docs/public/rbac.md:32` |
| `AlwaysGoesBack`, `MCRuleVersions_versions` | A row on the pseudo-version of an older release, whose record of the corrected version is the wrong query: the shipped query runs under that version and the record stays wrong (`rule-versions.ts:283-297`). | `docs/public/rule-versions.md:46`: "You can return to any recorded version" |
| `StandsWhileServing`, `MCRuleVersions_versions` | On Postgres an Admin enables a rule in one container between the plan and its execution in another that starts (`db/pg/seeds.ts:146`); it is moved all the same. | `rule-versions.ts:12` |

One more needs no schedule: `explorer-session.ts:195` says "A failed read keeps the
last answer, so the controls stay on screen", but `ViewFeed.start` (line 264) drops
it when a failed read is retried; its two siblings keep it. `KeepsAnswer` is stated
with that exception.

---

## 14. What the checks do not reach

- Liveness under fairness and anything with `ENABLED` are outside the prover:
  `RunsClose`, `OutboxDrains`, `EveryCallEnds`, `MirrorCatchesUp`, `CopyCatchesUp`
  and `SettlesOnWanted` rest on TLC alone.
- Induction over data: the library's induction theorems take an operator as a
  parameter, which the installed backends cannot instantiate. Where a proof needs
  one it argues from a least counterexample instead (`Least` in `ScheduleProofs`,
  `NothingMoves` in `DatabaseProofs`). A recursive function or a fold is unfolded at the
  arguments that matter, never over all of them.
- What the proofs exclude by hypothesis: `NextIsFirst` its two exceptions (section
  5), the claims' bounds on time (section 3), `Alone` and `OneScanner` (section 4).
- Hazards without a property, or with half of one:
  - pruning (`schedule-runs.ts:339`) deletes an unsent entry, or another container's
    running row, once 16 newer runs push it out. The model prunes, but every
    property of the outbox speaks of the rows still present;
  - an entry is marked sent whatever its channels answered
    (`notifications/dispatch.ts:56`): one attempt is promised and checked, a
    delivery is not;
  - two Admins removing each other (`db/users.ts:333`): `AdminRemains` holds on SQLite.
    On Postgres the role is read before the Admins are locked, and the last one can
    go (section 9);
  - a start on Postgres while another container serves (`db/pg/seeds.ts:146`):
    `StandsWhileServing` is stated and broken (section 13), `Settles` is about starts
    with nobody acting.
- Parts that are not modelled, and why:
  - notification channels, Azure clients, HTTP routes and pages: formatting and
    I/O, whose results are inputs of the modules above; what a route checks before
    a transaction is modelled with its component;
  - posture snapshots: derived pictures, rewritten by every scan. The race at
    `db/snapshots.ts:75` is repaired by the category's next refresh and is listed
    as a hazard without a property;
  - suppressions: a filter at read time with an expiry;
  - saved views, dashboards, saved queries, sessions, and scan history apart from
    its upgrade (`FindingUpgrade`): single-row CRUD, where no interleaving changes what is promised;
  - secrets and outbound guards: cryptography and address checks, no state that
    evolves.

## 15. Running it

    tlc -workers 2 -config MCRunLifecycle_overlap.cfg MCRunLifecycle.tla
    tlapm ScheduleProofs.tla

Every `.cfg` is named after its MC module and its run. The runs take from
seconds to about two minutes each, the proofs up to six minutes per module.
