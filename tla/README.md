# SignalWatch: a TLA+ development

TLA+ models, TLC runs and TLAPS proofs for SignalWatch, the real-time analytics
and monitoring platform of this repository (Django, Django REST Framework,
Channels and Celery over PostgreSQL and Redis, and two scripts in the browser).
Paths are relative to `src/`.

Contents: [inventory](#inventory), [modules](#modules), [runs](#runs),
[proofs](#proofs), [findings](#findings), [not modelled](#not-modelled),
[plan](#plan), [how to run](#how-to-run).

## Inventory

An application posts events to `POST /api/events/` with its project's API key.
The web process stores the event in a transaction whose on-commit hook
broadcasts it to the browsers that watch the project, moves the version
counters of the dashboard cache, and enqueues `process_event`. A Celery worker
evaluates the project's alert rules, and may create a trigger and a
notification, whose own hooks broadcast it and enqueue an email. Celery Beat
starts a spike scan every five minutes and retention, daily summaries and daily
reports once a day. Users edit projects, rules and keys through pages and the
API at the same time.

| Component | State | Operations | Hard because | Correct when |
| --- | --- | --- | --- | --- |
| Alert evaluation (`monitoring/tasks.py` 52-160) | rules, triggers, broker queue | `process_event`, `_create_rule_trigger` | several workers, redelivery, retries, crashes, stale rule list, time read before the lock | a rule fires at most once per event, outside its cooldown, while enabled; tasks end |
| Notification hooks (`notifications/services.py`) | notification rows, channel layer | `create_notification`, `_broadcast`, `_enqueue_email` | run after commit, one by one, not repeated by a retry | in order, once, lost only after a failure |
| Alert rules (`monitoring/views.py` 315-392, `api/views.py` 327-374) | rule rows | create, toggle, PUT/PATCH, delete | full-row saves of stale loads, deletion under a worker | a column is as last decided; a rule fires as it is; bursts are noticed |
| Ingestion (`api/views.py` 84-220) | events | POST, on-commit hook of three guarded parts | each part may fail and is swallowed | what fails is lost alone |
| Dashboard cache (`analytics/services.py` 482-560, 670-733; `analytics/signals.py`) | version counters and windows in the cache | `dashboard_data`, `increment_cache_version` | requests race hooks; counters are evicted, misread, lost | no stale window after an announced event; no window of another scope; staleness ends |
| Browser connection (`static/js/realtime.js`) | socket, timer, `shouldRun` | open, close, reconnect, stop, visibility, unload | callbacks in any order; close events of sockets already dropped | one live socket, none when stopped, reconnects |
| Projects and API keys (`monitoring/models.py` 12-98, `monitoring/views.py` 111-225, `api/auth.py`) | project rows, session key | create, edit, rotate, delete, show key, authenticate | overlapping requests with full-row saves | a retired key stays dead, a key is shown once |
| Analytics queries (`analytics/services.py` 59-480, `analytics/filters.py`, `analytics/views.py`, `monitoring/views.py` 228-312, `dashboard/views.py`) | none of their own | reports, lists, exports, filters, percentiles | several queries per answer, outside a transaction; dates and instants; pages counted apart from their rows | the parts of an answer agree; dates are whole days; paging misses nothing |
| WebSocket consumers (`monitoring/consumers.py`, `notifications/consumers.py`) | group membership | connect, forward, disconnect | joining and accepting are two steps; channels fill up | an open socket misses nothing |
| Live dashboard (`static/js/dashboard.js`, `static/js/realtime.js`) | the page's numbers, rows and badge | one handler per message | counts up numbers that the server rendered, over reconnections | shows what a reload would show |
| Notifications inbox (`notifications/views.py`) | read flags | mark one, mark all | other pages count unread by themselves | no unread one left out of the badge |
| Spike detector (`monitoring/tasks.py` 163-258) | triggers without a rule | periodic scan | overlapping and late scans, deleted projects | one trigger per burst, every measured burst reported |
| Retention (`monitoring/tasks.py` 261-281) | events | batched deletion | overlapping runs | ends, removes exactly the old |
| Email delivery (`notifications/tasks.py`) | - | `send_notification_email` | at-least-once delivery, SMTP errors | repeated only when an interruption followed a delivery |
| Daily jobs (`analytics/tasks.py`) | summaries | summaries, reports | counting and saving are two steps, whole-task retry, retention | one row per day that holds its day |
| Migration recovery (`accounts/management/commands/reset_render_migrations.py`) | schema, migration records | check, drop, recreate | nothing runs beside it: `migrate` refuses the history it requires | drops only the inconsistent state |
| Demo data (`seed_demo_data.py`) | all rows of one user | import, reset | bypasses every hook | as an edit by the user |
| Accounts, pages, templates, settings | profiles | render | little of their own | - |

The hazards each component is exposed to are listed, with the line where they
bite and the properties that would catch them, under `hazards` in
`PROJECT.json`; those without a property have a note that says why.

## Modules

| Module | What it is |
| --- | --- |
| `AlertLedger` | abstract specification of alerting: a log of triggers; `AlertPipeline` and `AlertRules` implement it |
| `AlertPipeline` | alert evaluation by several workers, with faults; implements `AlertLedger` |
| `AlertPipelineProofs` | its theorems |
| `AnalyticsCache` | the dashboard cache, its counters, hooks and requests |
| `AnalyticsCacheProofs` | its theorems |
| `RealtimeConnection` | one browser connection |
| `RealtimeConnectionProofs` | its theorems |
| `LiveDashboard` | that connection composed with its consumer, the group, the commits and the page; implements `RealtimeConnection` |
| `LiveDashboardProofs` | its theorems, the refinement among them |
| `ProjectKeys` | projects and their API keys under overlapping requests |
| `ProjectKeysProofs` | its theorems |
| `BackgroundJobs` | spike scans, retention, daily jobs and emails, as tasks that interleave |
| `BackgroundJobsProofs` | its theorems |
| `EventQueries` | the pure part of the queries: classification, filters, percentiles, pages |
| `EventReports` | reports, lists and exports as sequences of those queries, between which events change |
| `EventReportsProofs` | theorems of `EventReports` |
| `AlertRules` | one alert rule: overlapping edits, and what its evaluations count and compare; implements `AlertLedger` |
| `AlertRulesProofs` | its theorems, the refinement among them |
| `MC...` | instances for TLC |

`LiveDashboard` extends `RealtimeConnection` and takes the server's
classification from `EventQueries`, so that the script's own classification is
checked against it. `AlertPipeline` ends where its emails are enqueued and its
notifications are broadcast; `BackgroundJobs` has the email task and
`LiveDashboard` the broadcast. `AlertPipeline` and `AlertRules` are two views of
alerting: the first has the workers, locks, faults and transactions and lets a
condition hold or not, the second has the windows, metrics and conditions and
takes the section under the row lock as one step, which is what
`AlertPipeline!LockProtectsChecks` says of it. What the two promise together is
`AlertLedger`, which each of them implements: the pipeline with any number of
workers and faults in one project, the rule with any edits, moves between projects
and measurements.

Definitions whose comment begins with "Mutant:" are not part of any
specification. Each is a plausible wrong version of the definition after it, and
is there to show that a property depends on that definition.

### AlertPipeline and AlertLedger

One project with the alert rules `Rules` (their primary keys, so that the
"newest first" order of the loop is the order of the numbers), a queue of
`process_event` messages and the workers of the prefork pool.

| State | Code |
| --- | --- |
| `rules` | `AlertRule` rows: exists, `is_active`, `cooldown_minutes` |
| `triggers` | `AlertTrigger` rows with their `Notification` (one transaction creates both); `rule = 0` is the NULL of `SET_NULL` |
| `event`, `queue` | `Event` rows; messages at the broker with their retry count |
| `worker` | per worker: its message, what is left of the rule list, the rule being fired with the `now` read before the lock, and the row it committed |
| `pushed`, `mailed` | which triggers were broadcast, which emails were enqueued |
| `now`, `faults` | the clock in minutes; how many faults happened |

A task is cut where another process can come in between: `StartTask` (event and
rule list are read), `Evaluate` (one rule's metric; `now` of
`_create_rule_trigger`), `LockRule` (the row lock is granted and every check
under it is made), `Commit`, `Push`, `Mail` (the on-commit hooks in the order
they were registered), `Finish`. The checks and the insertion inside the
transaction are one step up to the commit because the rows it reads are guarded
by the row lock: that this is enough is `LockProtectsChecks`. The time
between `LockRule` and `Commit` is kept, as edits and other workers run into
the lock there.

Edits (`SaveRule`, `DeleteRule`) wait for the lock like any UPDATE or DELETE in
PostgreSQL. `ReviveRule` is what `PATCH` does when the row was deleted after it
was loaded: Django's `save()` inserts it again. Faults: a swallowed enqueue
(`Ingest`), database errors (`DatabaseError`, retried up to `MaxRetries`),
a COMMIT whose answer is lost (`CommitUnknown`), a lost worker (`Crash`), a
second delivery while the first runs (`Redeliver`), the time limit
(`TimeLimit`), and failing hooks (`Push`, `Mail`).

`AlertLedger` says the same of the rules, the triggers and the mail hand-off
alone: no workers, queue, locks, clock or faults. The cooldown of a rule is counted
per project of the event, as `_create_rule_trigger` does (`ProjectOf`). For
`AlertPipeline`, which has one project, the refinement mapping is the identity on
`rules`, `triggers` and `mailed`; for `AlertRules` the one rule has key 1, the log is
its set of triggers in the order of their primary keys (`Logged`), and no email
is handed over.

### AnalyticsCache

`dashboard_data` builds its key from the numbers of the global, the owner's and
the project's counter (`_dashboard_version`), and the hook of an ingested event
moves the three in turn (`increment_cache_version`). Every cache operation is a
step: a request is at one of `global`, `owner`, `project`, `get`, `query`,
`set`, `done` (`PC`), and the hook of an event at one of its counters.
`Bump` is `add` or the atomic `incr`; `FallbackRead` and `FallbackSet` are the
two halves of the fallback, between which anything may happen. A window is the
set of events it counts; `window[r]` is what request `r` is about to answer.

The cache may drop a window at any time (`Expire`: TTL and culling) and, as a
fault, a counter (`Evict`); `IGNORE_EXCEPTIONS` makes a request misread a
counter (`MisreadVersion`) and swallows a bump (`LoseBump`); a web process may
stop in its hook (`AbandonHook`). `Import` and `Delete` change events without
any hook. Three ghost variables (`at`, `seen`, `trusted`) and `failed` record
what had been announced before a request began and which counters can be
relied on; no action reads them.

### RealtimeConnection

Each browser callback is one step. Sockets are numbered in the order they are
created; a socket that `close()` was called on is `closing` until its close
event, which may come after any other callback. `timer` is the timer whose id
is in `reconnectTimer`, `stray` counts pending timers whose id was overwritten.
`overtaken` (a ghost) remembers whether a socket was opened while another's
close event was outstanding.

### LiveDashboard

A page with one connection, the project's stream or the user's notifications
(`kind`), from the moment the view has rendered it.

| State | Code |
| --- | --- |
| the variables of `RealtimeConnection` | its socket, timers and listeners |
| `stored`, `pending` | messages committed; of these, the ones whose on-commit `group_send` is still to come |
| `joined`, `inbox` | sockets whose consumer is in the group; what is on its way to each |
| `numbers`, `rows`, `badge` | `data-value` of the metrics, `data-event-id` of the live table, text of the unread counter |
| `read` | notifications marked read by other pages |
| `counted`, `late`, `received` | ghosts: what the rendering counted, what of it is broadcast after, what the page handled |

`Store` and `Broadcast` are the commit and its hook, `Join` and `Accept` the two
halves of the consumer's `connect`, `OnMessage` the whole handler of a message
(`updateKpis` and `updateLiveRows`, or the badge). `Browser(A)` is a callback of
`RealtimeConnection` with what it does at the server: a socket that ends leaves
the group and loses what was on its way. `LiveInit` starts from any rendering
the view can have made: the numbers may come from a cached answer, the badge
from a count that failed.

### BackgroundJobs

| State | Code |
| --- | --- |
| `tasks` | enqueued tasks with where they are, the time they read, the projects left, the rows they hold, their retries |
| `deleted`, `triggers`, `summary` | what the tasks wrote: events deleted, spike triggers, `DailyAnalyticsSummary` rows |
| `mails` | emails the SMTP server accepted, per notification |
| `lost` | ghost: notifications whose task was interrupted after that |

Every query or transaction of a task is a step; which projects are active when a scan
reads them is free (`StartLoop`). The clock moves under running
tasks up to the time limit (`Tick`); a task may be redelivered, retried up to
`MaxRetries`, or cut off; any two tasks interleave, two of one kind too. A task
reads nothing before a worker takes it, so `Beat` does not pile up tasks that
nobody has taken: the trace in which they are enqueued later has the same steps.
Events are a fixed schedule (`Posted`), each stored from its time on; the scan's
counts, its marker and its cooldown are those of the code with a bucket of
`Bucket` ticks.

### EventQueries and EventReports

`EventQueries` translates `error_q`, `success_q`, `slow_q`, `filter_events`,
`_filter_events`, `response_percentile`, the grouping of `timeline` and the
paginator to sets of events. `EventReports` runs them: a request of `Begin` fixes
what it asks and the `now` it uses, then takes one query at a time (`todo`), and
between any two of them events are posted (`Post`), deleted by retention
(`Cleanup`) and the clock moves (`Tick`). `answer[q]` is the set of events
query `q` read. `Reports`, `Lists` and the others are the API's endpoints and the
pages, each with its own list of queries in the order of the code.

### ProjectKeys

The projects of one user, the session entry `monitoring_generated_key` and the
requests under way in the web processes.

| State | Code |
| --- | --- |
| `row` | `Project` rows: exists, key (for hash and prefix), `is_active` |
| `slot` | the key waiting in the stored session |
| `req` | per request: what it loaded and will save, show or store |
| `issued`, `shown` | the keys generated; how many project pages have shown each |
| `events` | stored events, with whether they came with the key that was meant |
| `meant`, `overtaken`, `together` | ghosts: the row as its owner and the admin decided it; projects decided about while an edit held their row; keys two pages held at once |

A request that keeps what it read is two steps: an edit (`Load`, then
`EditSave` or `AdminSave`, which write every column, and insert a row that is
gone), the page that takes the key out of the session it loaded (`OpenPage`)
and saves the session when it responds (`ShowPage`), the form that creates a
project (`Create`, then `RememberKey`), and ingestion (`Authenticate`, then
`Store`). Rotation saves the key columns of whatever row is there
(`update_fields`) and deletion removes it: one step each. A request may end
anywhere (`Abandon`).

### AlertRules

| State | Code |
| --- | --- |
| `rule` | the `AlertRule` row, all columns but its name |
| `req` | per request: the row it loaded and will save |
| `created`, `stored` | `created_at` of each event; the events committed and still there |
| `task` | per event, its `process_event` task: the query that is next, the `now` and the row of the rule it read, its total and its value |
| `triggers` | `AlertTrigger` rows of the rule |
| `meant`, `overtaken` | ghosts: the row as it was decided; the columns decided about while a request that saves every column held the row |
| `steady`, `slipped` (in `task`) | ghosts: the rule is as the task read it; an error of its own window was committed between the two counts |

`Load` is the `get_object_or_404` or `get_object` of a request; `ApiSave`,
`AdminSave` and `ToggleSave` are its `save()`, the first two with every column,
the last with `is_active` alone, and a full save inserts a row that is gone.
A request comes once, as many as `Requests` has.
`Receive` and `Store` are the insertion of an event, which sets `created_at`, and
its commit with the hook that enqueues the task or fails to; `Import` and
`Remove` are changes that enqueue nothing. A task is `StartTask` (the event, the
clock and the active rules), then one step per query of `_rule_metric_value`, the
two of an error rate apart, then `Fire`, the section under the row lock. The
value compared is an exact fraction; a rate or an average is a float, so one
that should equal the threshold may lie on either side of it (`Floats`).

## Runs

| Run | Checks | Bounds |
| --- | --- | --- |
| `alert_pipeline` | `TypeOK`, `OneTriggerPerEvent`, `LockProtectsChecks`, `HooksRunOnceInOrder`, `CooldownHonoured`, `ImplementsLedger` | 1 rule, 2 events, 2 workers, cooldown 0 or 1, clock 0..2, 1 retry, 2 faults; workers and events are symmetric; 1.45 million states |
| `alert_liveness` | `PipelineDrains`, `TriggersAreMailed` | 2 rules, 1 event, 2 workers, 1 retry, 2 faults, under `FairSpec`; 0.13 million states |
| `analytics_liveness` | `FreshWhileOneCounterHolds`, `NoCrossScope`, `StalenessEnds` | 1 owner, 2 projects and "all projects", 1 request at a time, room for 2 windows, 1 fault, under `FairSpec`; 1.2 million states |
| `analytics_doc` | `NewEventForcesRecompute`, violated | no faults |
| `live_dashboard` | `LiveTypeOK`, `OneSocketUnlessOvertaken`, `HandledOnce`, `NumbersMatchAReload`, `OnlyLateCountedTwice`, `BadgeCoversUnread`, `RowsDistinct`, `OpenMissesNothing`, `NoSocketIsBornStopped`, `Reconnects` | 6 sockets, 3 disturbances, 2 messages of which 1 may be rendered, 1 failing broadcast, a badge up to 1, tables of 2 rows, a channel of 1, under `LiveFairSpec`; 1.5 million states |
| `realtime_doc` | `SuspendedWhileHidden`, violated | 2 disturbances, 5 sockets |
| `queries` | `ReportAgrees`, `PercentilesOrdered`, `DatesAreWholeDays`, `WholeRangesAreAnswered`, `PagesMissNothing` | 5 events, days of 4 ticks, pages of 2, 3 changes; 1.2 million states |
| `queries_doc` | `TimelineIsHourly`, violated | the same |
| `jobs` | `SpikesAreSpaced`, `CleanupExact`, `SummariesMatchTheirDay`, `MailRepeatsOnlyWhenLost`, `JobsEnd`, `SpikesAreReported` | 2 projects, 8 events, buckets of 2, days of 4, retention 10, 2 scheduled tasks, 6 tasks, 1 retry, 1 fault, clock 11..12, under `FairSpec`; 1.0 million states |
| `project_keys` | `RowsAreMeant`, `EventsWereAllowed`, `ShownOnce` | 2 projects, 2 keys, 2 requests at a time, all symmetric; 3.4 million states |
| `project_keys_doc` | `RotatedKeyIsDead`, violated | 1 project, 2 keys, 1 request besides the rotation |
| `alert_rules` | `ColumnsAreMeant`, `FiresAsItIs`, `BurstsAreNoticed`, `RatesArePercentages`, `ImplementsLedger` | 2 projects, 2 errors, 2 requests in all, a PUT and three PATCHes (the project, other metrics, no cooldown), window of 1, cooldown of 1 or 0, 1 interruption, clock 0..2; events and requests are symmetric; 6.2 million states |

Why the bounds are enough to be interesting. Alerts: two workers with the two
deliveries of one event, or with two events, are all that one row lock can be
contended by in pairs; a cooldown of 1 with a clock of 0..2 has a trigger inside,
at and outside the boundary, and a worker whose time is older than the lock it
gets; two faults are a crash after a retry, or a commit whose answer is lost
followed by a second delivery; one rule is edited, deleted and brought back in
between. The loop over several rules is in `alert_liveness`. Cache: a window
that is queried before an event and stored under the counters of after it needs
one event and one request after another, and a counter that is lost or goes back
needs one fault; two requests at a time are left to the proof. Keys: an edit is overtaken by one decision, a page by one
other page, and a second key serves both for a rotation and for a second
project. Live pages: three disturbances are a hide, a late close and a loss of
the socket that came after it, the least with which a page holds two sockets and
a stray timer at once (six sockets are as many as three disturbances can use);
with two messages, one of which may have been rendered, each can be counted
twice, missed, or broadcast out of order, and a badge of 1, a table of 2 and a
channel of 1 are full with them. Jobs: clock 11..12 is the end of a bucket and of
a day, with events at, before and after each boundary that a scan, a cutoff or a
summary compares with; two tasks of any kinds overlap, and the emails of their
triggers come on top. Queries: the events lie on midnights and beside them, and
three changes are enough for one event to be posted, another to expire and the
clock to pass a midnight between two queries. Rules: a save of the whole row is
overtaken by one other request, and a rule is moved, switched or given another
metric at any query of a task. A burst needs two errors, each of which the
other's task may or may not count, and which may be removed in between; a rule that
matched without a cooldown may fire under one that a PUT brought back; with a window
of 1 and a clock of 0..2 an error is inside, at and outside it. The absence of a bound is what
the proofs are for.
`CHECK_DEADLOCK` is off in all runs because all clocks, events and faults are bounded, and a model
that has used them up may stop.

What the liveness runs assume:

- `AlertPipeline!FairSpec`: each worker keeps taking steps (weak fairness of
  `Work(w)`). Celery's prefork workers run until they are killed, and PostgreSQL
  grants a row lock that is free. Nothing is assumed of the environment or of
  faults, and faults are finitely many (`MaxFaults`): the code bounds the
  retries of a task, not the crashes of a machine.
- `AnalyticsCache!FairSpec`: a request runs to its end and a cached window to
  its TTL. New requests, events and faults may stop or go on.
- `LiveDashboard!LiveFairSpec`: timers fire, a closing socket closes, as browsers
  guarantee, and the server answers a handshake (`Join`, `Accept`). Nothing is
  assumed of the group, of messages or of broadcasts. `RealtimeConnection!FairSpec`
  is the same for the connection alone.
- `BackgroundJobs!FairSpec`: a task that can take a step takes one in the end
  (weak fairness of `Work(t)`), as workers keep consuming. Nothing is assumed of
  the clock, of Beat or of faults, which are bounded.

`TriggersAreMailed` says what the code ensures and no more: a fault may lose an email
for good, as the hooks are no part of what a retried task repeats, but no more than
the one that was under way, and without a fault every trigger is mailed.
`OneSocketUnlessOvertaken` likewise names the one situation in which the page
may hold two sockets; the second finding is what follows from it.

## Proofs

All safety properties, and both refinements of `AlertLedger` and that of
`RealtimeConnection`, are proved with TLAPS for arbitrary constants, from the named
assumptions of the modules
(`PipelineAssumption`: primary keys are positive, cooldowns are natural numbers;
`CacheAssumption`: every project has one owner and every event one project;
`KeysAssumption`: the values for no key and no project are no key and no project;
`RealtimeAssumption` and `LiveAssumption`: bounds are natural numbers, messages
have a type and a status; `JobsAssumption`: durations are positive, events are
typed, and retention keeps a day until it has been counted, with the 90 days of
the default settings and the time limit of a task; `DurationsAssumption` and
`ReportsAssumption`: days are whole hours, at most a week and that at most a month,
events have distinct keys, response times are natural numbers, none is of the
future, retention is a number of ticks, a request's bounds are dates or instants, and
the project page has no filters of its own; `RulesAssumption`:
events are finitely many and of a project, edits write columns of a rule).
Symmetry, bounds on the clock, on faults and on retries are not needed: the
bounds are parameters of the theorems. The type invariants of `AnalyticsCache`,
`ProjectKeys`, `BackgroundJobs`, `EventReports` and `AlertRules` are checked by these proofs
alone.

`AlertPipelineProofs`

| Theorem | Statement |
| --- | --- |
| `TypeCorrect` | `Spec => []TypeOK` |
| `LockProtects` | `Spec => []LockProtectsChecks` |
| `TriggersOnce` | `Spec => []OneTriggerPerEvent` |
| `HooksInOrder` | `Spec => []HooksRunOnceInOrder` |
| `Cooldown` | `Spec => CooldownHonoured` |
| `Refinement` | `Spec => ImplementsLedger` |

`OneTriggerPerEvent` is not inductive: nothing in the log says that the trigger a
worker is about to commit is the first of its rule and event. That is known
since the checks under the lock and must survive until the commit, which is
`LockProtectsChecks`: nobody else is in the section for the rule, the row has
not changed, and no trigger has appeared that the marker or the cooldown would
have found. The inductive invariant `IInv` is the conjunction of the type
invariant, that property, the order of the hooks and `OneTriggerPerEvent`
itself. The cases of its proof are the environment (`EnvironmentLock`,
`EnvironmentHooks`: an edit waits for the lock, a deletion takes its rule off
triggers of which no worker in the section asks), the workers (`WorkerLock`,
`WorkerHooks`), and the log (`OnlyCommitsInsert`, `NextOnce`). `Cooldown` and
`Refinement` are about steps and follow from `IInv` in the first state of the
step: `InsertRefines` shows that an insertion satisfies the guard of the
ledger's `Record` although the worker's time may be long past.

`AnalyticsCacheProofs`

| Theorem | Statement |
| --- | --- |
| `TypeCorrect` | `Spec => []TypeOK` |
| `Fresh` | `Spec => []FreshWhileOneCounterHolds` |
| `Scoped` | `Spec => []NoCrossScope` |

Freshness needs an account of the cached windows, of which the property says
nothing. The argument: a counter that never failed is never behind a number an
event's hook moved it to (`CountersLead`), so a request that begins afterwards
and reads it without an error has a number at least as high (`SeenIsRead`); and
a window stored under a number at least as high as an event's was queried
after that event was stored, so it counts the event unless the event is gone
(`WindowsCover`, with `ReadersOK` for the requests that hold a number and have
not stored their window yet, and `HooksOK` for the hooks under way). `Scoped`
needs only that every window lies within the scope of its key
(`WindowsScoped`).

`ProjectKeysProofs`

| Theorem | Statement |
| --- | --- |
| `TypeCorrect` | `Spec => []TypeOK` |
| `RowsMeant` | `Spec => []RowsAreMeant` |
| `EventsAllowed` | `Spec => []EventsWereAllowed` |
| `KeyShownOnce` | `Spec => []ShownOnce` |

There are two inductive invariants. `RowsInv` adds that what an edit has loaded
is still what is meant (`LoadedIsMeant`), and that an event let in was allowed
(`IngestAllowed`); `DecideLoaded` is the step in which a decision overtakes
every request that holds the row. `SessionInv` follows a key from its
generation through the one request that puts it in the session
(`NewKeyIsFresh`) to the page that shows it, after which it is never in the
session again (`ShownLeft`); `HeldOnce` is `ShownOnce` made inductive.

`RealtimeConnectionProofs`

| Theorem | Statement |
| --- | --- |
| `ConnectionTyped` | `Spec => []TypeOK` |
| `OneSocket` | `Spec => []OneSocketUnlessOvertaken` |
| `BornRunning` | `Spec => NoSocketIsBornStopped` |

That a page has one live socket needs to know which: until a start overtakes a
close event, a live socket is `current`, a connection that runs waits for no
close event, and a timer waits only while there is no socket
(`NothingOvertaken`). A close event then finds nothing it could wrongly
forget, and `stray` stays 0.

`LiveDashboardProofs`

| Theorem | Statement |
| --- | --- |
| `ConnectionImplemented` | `LiveSpec => Spec` |
| `LiveTyped` | `LiveSpec => []LiveTypeOK` |
| `LiveOneSocket` | `LiveSpec => []OneSocketUnlessOvertaken /\ NoSocketIsBornStopped` |
| `RowsStayDistinct` | `LiveSpec => []RowsDistinct` |
| `TwiceOnlyWhenLate` | `LiveSpec => []OnlyLateCountedTwice` |
| `PageHandlesOnce` | `LiveSpec => []HandledOnce` |
| `NumbersAreAReloads` | `LiveSpec => []NumbersMatchAReload` |
| `BadgeCovers` | `LiveSpec => []BadgeCoversUnread` |
| `OpenSocketMissesNothing` | `LiveSpec => OpenMissesNothing` |

`ConnectionImplemented` is the refinement: a step of the live page is a step of
the connection or leaves its variables alone, so the theorems of
`RealtimeConnectionProofs` hold of the page as well. The invariant `LiveIInv` adds
to them what a message is on its way through: it is pending, or in the inbox of
a socket, or handled, and in one of these places once while one socket is live
(`StreamInv`, `OnceInv`); and what the page shows is what it was rendered with
plus one for each message handled (`NumbersAdd`, `BadgeCounts`), from which
the equality with a reload follows by counting the union of two sets.

`BackgroundJobsProofs`

| Theorem | Statement |
| --- | --- |
| `JobsTyped` | `Spec => []TypeOK` |
| `SpikesSpaced` | `Spec => []SpikesAreSpaced` |
| `CleanupIsExact` | `Spec => []CleanupExact` |
| `SpikesReported` | `Spec => SpikesAreReported` |
| `SummariesMatch` | `Spec => []SummariesMatchTheirDay` |
| `MailRepeats` | `Spec => []MailRepeatsOnlyWhenLost` |

Tasks share only the tables, so the invariant is one predicate of a task and the
tables (`GoodTask`), and a step of one task has to keep it for the others: each
table only grows or shrinks in a way that `GoodTask` survives. `SummariesMatch`
is the one that needs the assumption on retention: a task that counted a day
holds it until it saves, and no cutoff of a task reaches that day meanwhile,
because the clock cannot run past the time limit of the task that holds it
(`CountInv`).
`MailRepeats` counts deliveries: one email task owns a notification
(`OneOwner`), and an accepted email means that task is past it (`SentOnce`).

`EventReportsProofs`

| Theorem | Statement |
| --- | --- |
| `ReportsTyped` | `Spec => []TypeOK` |
| `PartsAgree` | `Spec => []ReportAgrees` |
| `WholeDays` | `Spec => []DatesAreWholeDays` |
| `RangesAnswered` | `Spec => []WholeRangesAreAnswered` |
| `PercentilesInOrder` | `Spec => []PercentilesOrdered` |
| `PagesComplete` | `Spec => []PagesMissNothing` |
| `PercentileInRange`, `PercentilesGrow` | what `response_percentile` returns lies in the range of the response times, and does not fall as the percentage grows |
| `PagesPartition`, `NewestAreNewest` | the pages of a list share its events out, newest first; the newest of a list are newer than its rest |

The invariant `IInv` has four parts. `World`: what is stored is what was ever
there but for what was deleted, finitely many events with distinct keys, and
what was deleted had expired. `Request`: what is still to be asked is the end
of the list of queries of the request's kind (`AtQuery`), so that an answer is
there exactly for the queries before it, and of two answers it is known which
was read first (`Order`). `Answers`: each answer is of chosen events that were
stored, contains every chosen event that was there at the beginning and was not
deleted, and each part of a report differs from the one it is compared with only by what
changed between them (`Parts`). `Failed`: a request that fails had a range with
one end, or came from one of the two forms. `WholeDays` also needs that an instant
lies in a day exactly between that day's bounds (`DateBounds`).

The percentiles and the pages are about places in an order, and the library's
inductions cannot be used. The k-th response time exists (`KthExists`) because
strict inclusion of finite sets is well-founded: of the sets "at most x" with more
than k members there is a least one, and its greatest member is the k-th. It is
unique and grows with k (`KthOrdered`), by comparing how many lie below. A percentile
then lies between two neighbours (`PercentileIs`, `BetweenBounds`), in fractions of a
hundredth so that all is arithmetic of integers, and grows within a pair of neighbours
and from one pair to the next. A page is a condition on the rank of an event, the
number of newer ones, so nothing is to be built row by row. What `PagesMissNothing`
needs of two pages, `Paged` states: the queries of a list come in their order, and what
one read and a later one did not was deleted between them. As what is deleted had
expired, and an expired event is older than any that has not, an event that stays
keeps every newer one it had: it only moves down the list (`RankGrows`), and stays
behind the page that ends before it, until the one page whose bounds it lies in is
read, or the count says that there are no more. `PagesPartition` and
`NewestAreNewest` hold of any finite set of events with distinct keys, such as those
that a request reads (`EverListed`); `FewRanks` counts the ranks below a number.

`AlertRulesProofs`

| Theorem | Statement |
| --- | --- |
| `TypeCorrect` | `Spec => []TypeOK` |
| `ColumnsMeant` | `Spec => []ColumnsAreMeant` |
| `FiresRight` | `Spec => FiresAsItIs` |
| `Percentages` | `Spec => []RatesArePercentages` |
| `BurstsNoticed` | `Spec => []BurstsAreNoticed` |
| `Refinement` | `Spec => ImplementsLedger` |

`ColumnsMeant` is the argument of `RowsMeant` column by column: a request that will save
the whole row holds what is meant, but for the columns overtaken
(`LoadedIsMeant`). `FiresRight` and `Percentages` follow from one predicate of a
task, the rule and the events stored (`GoodTask`): until the rule changes, the
row of the task is the rule, and until an event slips in, the errors it is
about to count are at most its total. `BurstsNoticed` is the deepest. Of any errors whose
tasks have begun within the window of each other, the one whose task has the
latest clock counts them all or is about to (`BurstsGood`): whichever task begins
last takes that role, and no task loses it, as the events it has to count were
committed before their own tasks began and none of them is removed while the
burst is counted. And a task that ended on a count that matches has a trigger or
the cooldown to show (`Answered`).
`Refinement` needs to know that primary keys number the triggers (`Numbered`), so that
a firing appends to the log and a deletion changes it in place, and that no request
holds a cooldown that was never written (`Allowed`), or its save would not be an
edit of the ledger. `RecordStep` is the case of a firing: whatever row the task
has read, the row it locks, its triggers and their projects meet the guard of the
ledger's `Record`.

Only model-checked: liveness (`PipelineDrains`, `TriggersAreMailed`,
`StalenessEnds`, `Reconnects`, `JobsEnd`), which rests on fairness and ENABLED and is
beyond the prover. Two more things stay out of its reach: what a recursive definition
computes for every input, and modules with RECURSIVE operators; no module here
declares one.

## Findings

1. `analytics_doc`. README.md:522: "the cache is versioned, so a new event or a
   cache-version bump makes the next request recompute instead of serving a
   stale window". Only the hook of `POST /api/events/` moves the counters. The
   receivers of `analytics/signals.py` that should cover every other way compare
   `options.model_name` (lower case) with `"Event"`, so they never bump, and
   `bulk_create` sends no signals anyway. An imported event is missing from the
   next response, until the window's TTL ends (`StalenessEnds`).
2. `realtime_doc`. README.md:576: "Connections stop on `beforeunload` and are
   suspended while the tab is hidden, then restarted when the tab becomes
   visible again." The close listener (`static/js/realtime.js` 72-78) clears
   `this.socket` whichever socket closed. Hide, show, then the late close of the
   first socket: the connection forgets its second socket and opens a third, and
   hiding the tab closes only the one it knows.
3. `project_keys_doc`. README.md:395: "Regeneration replaces the hash
   immediately, invalidating the old key". `ProjectEditView`
   (`monitoring/views.py` 157-178) saves all columns of the project it loaded,
   `api_key_hash` included: an edit that loaded before the rotation and saves
   after it makes the old key valid and the one just shown to the owner
   invalid. `RowsAreMeant` shows that only an overtaken edit, of the owner or of
   the admin, can do this.
4. `queries_doc`. README.md:522 promises "an hourly `timeline`" and
   templates/analytics/overview.html:48 says "Hourly buckets calculated from the
   filtered event set." `timeline` (`analytics/services.py` 465-480) annotates the
   counts before it calls `values("bucket")`; Django then groups by every column
   of the event, its primary key included, and the answer has one row per event:
   two events of one hour are two rows for that hour.
### Observations

Behaviour the models show or had to reproduce, and that no document contradicts
plainly enough to be a finding:

- A project page rendered without events has no table body, so its live table
  stays empty, although `project_dashboard.html:66` says "New events will appear
  here without refreshing the page".
- The page counts up every event of the stream, also those its filter excludes;
  an event committed before the rendering and broadcast after is counted twice
  (`late`), and one broadcast after the rendering and before the consumer joined
  the group is not counted at all.
- The unread badge is read back from its text: after "99+" it starts again at 1.
  It never falls when another page reads notifications, and the dropdown starts
  empty as `recent_notifications` is in no context.
- The live table is trimmed to 8 rows by the first message, whatever was rendered.
- `generate_daily_monitoring_reports` fails at its first statement
  (`analytics/tasks.py:62` calls `iterator()` of a list), though README.md:38
  promises the reports.
- A range with one end may be refused by its default at the other end, and the
  error and slow-request pages raise for any sent form without an end date
  (`analytics/views.py:36`): both are answered with a server error.
- A request is slow at the threshold for the API and the slow page, above it for
  the project page and `Event.is_slow`.
- The last page of a list leaves out an event that an insertion between the
  count and the rows pushes past the count.
- A spike scan skips the projects after one that was deleted meanwhile, and
  `process_event` the rules after a deleted one. A swallowed enqueue leaves its event
  unevaluated for good.
- Two toggles of a rule at once may end as one, and a toggle may undo the effect
  of a PATCH. A PUT without `is_active` enables the rule (its default is `True`).
- A trigger of a rule that was given another metric during the evaluation names
  the new metric with the value of the old one, and a rule that was moved may
  fire once more for an event of its old project.
- `AlertRuleSerializer.validate` keeps the threshold of an error rate below 100
  ("Error-rate thresholds must be between 0 and 100.", `api/serializers.py` 300) by
  looking at the columns of the request: a PATCH of the metric or of the threshold
  alone, the page's form and the admin can each store such a rule with a threshold
  above 100, which then fires only if an error slips in between the two counts.
- An error committed between the two counts of an error rate can raise it above
  100 percent.
- A rate is computed in binary floating point and compared exactly with the
  decimal threshold: 11 errors of 20 events are 55.00000000000001 percent, above 55,
  and 29 of 50 are below 58.

## Not modelled

Payload limits, the other fields of serializers, templates, styling, charts and page chrome are data
and layout. The exact SQL behind `save()` and
`delete()` is modelled by its effect: an update of a missing row is an insertion
for a full save. In `AlertPipeline` a rule stays in its project, conditions hold
or not as they please (`AlertRules` computes them and moves rules), and the deletion
of a whole project is the deletion of its events and rules. In `AlertRules` there is one
rule, a task is delivered once at a time, the value of a trigger is not rounded to four
decimals, and the bounds of the serializer's fields are those of the types. In `AnalyticsCache` there is one set of filters, a window is
a set of events, and the parts of one response are one query (`EventReports`
takes them apart). In `LiveDashboard` the length of delays, the toast and the
dropdown's layout are left out, a refused handshake is a lost one, and `new WebSocket`
does not throw: it does for an invalid URL or an insecure one on a secure page, and
`resolveSocketURL` makes neither. In
`ProjectKeys` no two
generated keys are equal, a project is never without a key (one added in the
admin is), its owner does not change, and a session belongs to one user. In
`BackgroundJobs` what the SMTP server does after accepting an email is not known. In
`EventReports` search, environments and ordering by other columns are left out:
they select and order by one more column each, and the clock is read once, where
`dashboard_data` and `overview` each read it with no query in between.

Components with status `not_modelled` in `PROJECT.json`: the migration recovery
command (run by hand, once, on one broken deployment: it drops the schema only on a
history that `migrate` refuses to go on from, so no migration interleaves with it),
accounts and
profiles (Django's own authentication and one signal), pages and settings.

## Plan

Done, in this order: `AlertLedger`, `AlertPipeline` and proofs; `AnalyticsCache`
and proofs; `RealtimeConnection` and `ProjectKeys`, with proofs;
`LiveDashboard` and its refinement; `EventQueries`, `EventReports` and proofs;
`BackgroundJobs` and proofs; `AlertRules` and proofs; the order of percentiles and of
pages; the refinement of `AlertLedger` by `AlertRules`.

Left, should the code or the interest in it grow:

1. A composition of `AlertPipeline` with the email task of `BackgroundJobs`, to say
   of one trigger how many emails it may end in.
2. What the ledger promises over a run, as theorems of `AlertLedger`: how
   often a rule may fire within a span of time when its cooldown is edited.

## How to run

In this directory, with TLC and TLAPS on the path:

    tlc -workers 2 -config AlertPipeline.cfg MCAlertPipeline
    tlapm AlertPipelineProofs.tla

and likewise for the other runs of `PROJECT.json` and the other `...Proofs`
modules. The longest run (`alert_rules`) takes three minutes on two cores, and each proof
module less than two.
