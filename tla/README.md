# ch-analyzer in TLA+

ch-analyzer polls a fleet of ClickHouse instances, turns what its collectors
see into alerts, keeps those alerts in a table of each instance, and tells
people about them (Slack, PagerDuty, webhook, dashboard). This directory
specifies the part of it that decides what people are told, and the dashboard
on which they read it and act: TLA+ modules translated from the Go and the
TypeScript source, TLC configurations that check them on small instances, and
TLAPS proofs for every value of the constants.

Paths in this file are relative to the repository root; `alerter.go` is
`internal/alerter/alerter.go`, `store.go` is `internal/store/store.go`,
`main.go` is `cmd/ch-analyzer/main.go`; `views/`, `components/`, `hooks/` and `lib/`
are under `web/frontend/src/`.

## 1. Inventory

### The monitor

| Component | State | Operations | What is hard | What makes it correct |
|---|---|---|---|---|
| Reconcile loop (`alerter.go`, `inhibition.go`, `pagerduty.go`, `ratelimit.go`) | `cleanChecks`, `lastTouched`, limiter clocks; the rows are in ClickHouse | `ReconcileWithObservation`, `ClearCleanChecks`, `AutoResolveStale` | reads and writes fail one by one; the dashboard and the sweep close rows between its steps; counters vanish on restart | a row closes only for a reason; every firing is recorded and announced; incidents and acks end with it |
| Slack instance message, heartbeat, escalation (`alerter.go`, `slack.go`, `escalation.go`) | `instanceTS`, `lastInstanceUpdate`, `instanceFirstFired`, `lastEscalated` | `updateInstanceMessage`, `heartbeatTick`, `LoadInstanceTSMap` | two goroutines update one message without holding the lock; queries and requests fail | the message comes to show what is open; escalation follows an uninterrupted firing |
| Alerts table (`store.go`, `schema.sql`) | versioned rows of a ReplacingMergeTree | insert, refresh, resolve, sweep, start-up clean-up, reads without FINAL | INSERT SELECT on stale rows, equal versions, merges at any time | readers agree; one firing open per key; statistics carried over |
| Stores of operator decisions (`maintenance.go`, `snooze.go`, `ack.go`, `internal/web/schedule.go`) | a map behind a lock, a JSON file | add, update, delete, prune, save, load | the file is written outside the lock; crashes between truncation and rename; entries are made for alerts that no longer fire | a restart brings back what was saved; what was given for one firing does not reach the next |
| Poll loop, circuit breaker, force-poll (`main.go`, `internal/web/runcheck.go`) | failure counts, backoff times, two channels of capacity one | `runReconcile`, the select loop, `handleForcePoll` | per-instance goroutines, backoff and retry, which failures are noticed at all | an unreachable instance is reported, without a gap, until it is collected; a request is served |
| Schedule runner (`main.go`, `internal/web/schedule.go`) | in-flight schedules, `LastRunAt` | ticks, run goroutines | two marks change one after the other | a schedule runs when it is due, and not twice at a time |
| Thresholds (`internal/web/thresholds.go`, `main.go`) | the server's configuration, the override file, the copies the collectors were built with | get, post, start-up | the answer to a post is lost, pages save at once, the file is read into another type, the copies are made before it is read and never again | what is shown is what the server has, also after a restart, and what the next poll compares with |
| Digest scheduler, webhook notifier, Slack app's pinned dashboard | last dates; a limiter; `pinnedTS` and a state file | minute ticks; `Send`; buttons and commands | dropped ticks; one limiter for firing and resolved; late failures | not modelled, see section 5 |
| Analyzer, ClickHouse clients, collectors, configuration, exporter, audit log, report handlers, chat/terminal/analysis back ends | little or none between requests | SQL queries, HTTP, child processes | - | - |

### The dashboard

A single page in React. Its parts share a store (`hooks/useStore.tsx`), the URL,
and `localStorage`, which all pages of the browser share; everything else is in
the state of one component, next to the requests it has sent.

| Component | State | Operations | What is hard | What makes it correct |
|---|---|---|---|---|
| Views and widgets that load data (66 of them) | an answer, a loading flag, an error | an effect asks again when a dependency changes, a timer or a button | answers come in any order, with errors, or after the question has changed | what is shown belongs to what is selected, or says that it is old |
| Navigation (`hooks/useStore.tsx`, `hooks/viewRouting.ts`) | view, instance, range, tab; the URL and the browser's history; a back stack | links, tabs, back and forward, reload | several writers of the URL, some replacing, some pushing | a link opens what is on the screen; back leads away |
| Chat and analysis panel (`views/ChatAnalyzer.tsx`, `hooks/useAIAnalysis.ts`) | sessions in memory and in `localStorage`, a stream | ask, stop, delete, reload, other pages | a stream outlives its panel or its page; two streams | no message is being answered for ever; the notification tells the outcome |
| Alerts view (`views/Alerts.tsx`) | active alerts and history, filters, cursor, pages | load, resolve one, many or the stale ones | a load answered after a resolve; a tick during one | what is resolved stays off; lists and counters agree |
| Alert panel (`components/AlertDetailPanel.tsx`) | the lists of acks and snoozes | acknowledge, snooze, and back | changes and lists cross; entries made elsewhere | what is shown is what the store has |
| Query log, scanner, data tables (`views/Explore.tsx`, `views/TableScanner.tsx`, `components/DataTable.tsx`) | rows, pages, filters, sort | load more, choose, sort, turn pages | offsets into data that grow, into whichever of two tables the server reads for a page; a choice made before an answer | no row is skipped or lost |
| Terminal (`views/Terminal.tsx`) | nodes, results, histories | execute, abort, add and remove nodes | old answers in new panes | rows are of the last query |
| Expired session (`components/TopBar.tsx`) | modal, stream, timers | refresh, paste, log in, dismiss | timers and requests of modals that were closed | an expiry is not passed over |
| Comparison (`views/Compare.tsx`, `internal/web/compare.go`) | the answer, selected nodes, a baseline | select, filter | nodes that were not read | "identical" is so |
| Thresholds, windows, collectors, schedules (`views/ThresholdEditor.tsx`, `Maintenance.tsx`, `RunCheck.tsx`) | a copy of the server's state | save, extend, trigger, switch | lost and late answers, several pages | what is shown is what the server has; one trigger writes one row |
| Saved lists, widgets (`lib/notify.ts`, `views/Overview.tsx` and others) | `localStorage` | save, delete, dismiss, reorder | pages with copies of their own; newer builds | no entry is lost |

How they interact. The poll loop runs all collectors of all instances in
parallel, unions their alerts and calls `ReconcileWithObservation` once, with
the set of instances whose collectors all returned without an error. Of the
collectors that `buildCollectors` lists, only `RestartCollector` ever returns
one; the others log a failed query and return what they have. Reconcile reads the open
rows, inserts, refreshes and resolves rows, and notifies. The HTTP handlers and
Slack actions run in other goroutines: they resolve rows directly in the table,
then call `ClearCleanChecks`, insert rows for alerts triggered by hand without a
look at the table and without a notification (`handleTriggerAlert`), and change
the stores that Reconcile consults: windows and snoozes keep alerts quiet;
acknowledgments do not (`IsAcked` and `GetAck` have no caller), they are listed,
and Reconcile removes them when it resolves their alert. A heartbeat goroutine sweeps stale rows, refreshes the Slack messages and
escalates. A process restart keeps the table and the JSON files and forgets the
rest. The dashboard calls the handlers with a time limit; what has timed out may
still be handled. `PROJECT.json` lists the hazards of all this, each at its line.

## 2. Modules

| Module | About | Run | Proofs |
|---|---|---|---|
| `AlertManager` | the reconcile loop, one action per step, with all other writers, the trigger handler among them | `reconcile`, `progress`, `am_flaky`, `ack_late` | `AlertManagerProofs` |
| `AlertLifecycle` | what the alert manager promises of one alert, from its row to the end of its acks and incident: an abstract specification that `AlertManager` implements | `reconcile` | `AlertManagerProofs` |
| `PollLoop` | the select loop, the circuit breaker, what a poll hands to the reconcile loop | `progress`, `breaker_silent` | `PollLoopProofs` |
| `InstanceMessages` | one instance's Slack message, the heartbeat, escalation | `progress`, `slack_all_clear` | - |
| `AlertTable` | the versioned rows of one dedup key | `server_parts`, `table_merged_stats` | `AlertTableProofs` |
| `AlertRow` | what the table promises of one key, a row that only a write on an outdated read, or on none, can upset: an abstract specification that `AlertTable` implements | `server_parts` | `AlertTableProofs` |
| `PersistentStore` | one store of operator decisions and its file | `server_parts`, `stores_overlap` | `PersistentStoreProofs` |
| `Schedules`, `ThresholdSettings`, `MaintenanceView`, `AlertPanel` | a view together with the handlers and the state behind it | `server_parts`; of `ThresholdSettings` also `thresholds_restart`, `thresholds_live` | `ServerPartsProofs` |
| `ViewLoaders`, `LoaderCatalog` | how a component gets its data; a record for each component that does | `browser` | `ViewProofs` |
| `Navigation`, `ChatSessions`, `AlertScreen`, `Reauthentication`, `Terminal`, `RunCheck`, `TableScanner`, `SavedLists` | the parts of the dashboard that answers, links, messages and other tabs reach in some order | `browser` | `BrowserPartsProofs` |
| `TableComparison`, `SettingsComparison`, `AlertList`, `QueryLog`, `DataTable`, `WidgetLayout` | the parts of the dashboard that make something of the rows they have | `browser` | `ViewProofs` |
| `BrowserParts`, `BrowserLists`, `MCBrowser` | the dashboard's parts side by side, for any values of their constants (`Browser.cfg` gives the small ones): `BrowserParts` instantiates the first eight, `BrowserLists` the other six, `MCBrowser` runs them and the loaders | `browser` | `BrowserProofs` |
| `MCServerParts` | the server's parts side by side, for any values of their constants; `ServerParts.cfg` gives the small ones | `server_parts` | `ServerPartsProofs` |
| `MCReconcile` | the reconcile loop on three small instances | `reconcile` | - |
| `MCProgress` | the poll loop, the reconcile loop and the Slack message on small instances, for liveness | `progress` | - |
| `MCAlertManager`, `MCPollLoop`, `MCInstanceMessages`, `MCAlertTable`, `MCPersistentStore` | constants for TLC | | |

The four modules `MCReconcile`, `MCProgress`, `MCServerParts` and `MCBrowser` combine modules that share no state: a variable `part`
says which of them a behaviour is about, and the variables of the others rest in
an initial state. Their product would only repeat each part's states. Modules
that do interact are one module (a view with its handlers) or meet in a
variable of that module: `PollLoop`'s `handed` is what `AlertManager!Observe`
takes, `AlertManager` has every other writer of rows, windows, snoozes and
acknowledgments as an action: the dashboard's resolves and `Trigger`
(`handleTriggerAlert`), the sweep, the users, the restart.

Operators marked `mutant` are variants of the definition that follows them,
written the way a plausible bug would change it. Nothing in the specifications
uses them; they are substituted to make sure that each property notices.

**AlertManager.** A cycle is `Observe` (runReconcile: what is seen, which
instances are trusted), `Snapshot` (GetAllActiveAlerts, instance by instance),
`Account` (the diff, the filters and the clean-check counters, which the code
computes between two accesses to shared state), then one `Insert` per new row,
`Refresh`, one `ResolveRow`/`ResolveFails` per candidate with `AnnounceResolve`
after it (ack and incident), one `Notify` per alert, and `EndCycle`. `cycle`
holds the function's local variables; `pc` says how far it is. The other
goroutines' actions interleave at every step. `rows` maps a key to the severity
of its open firing: the table as its readers see it when no two writes race
(`AlertTable` is about when they do). `refreshed` and `stale` abstract
`updated_at`: a row is kept fresh while its alert is observed and refreshes
succeed, and may reach the 24 hours of the sweep otherwise. `cleanStreak`,
`wasClear` and `told` are history variables: the code has no such state, properties compare
the code's state with them. The rate limit on refreshes is a free choice,
because cycles and its five minutes are not related. Two events take alerts away from
an observation: `unreachable` (every query fails, `RestartCollector` returns
the error, the instance is not trusted) and `query` (single queries fail, the
collector may say nothing, the instance may stay trusted); `MayGoMissing` says
which losses an environment admits, and `wasClear` remembers for which keys the
condition really was clear. `Acknowledge` has no guard, as `AckStore.Add` and its
callers have none: a click on an old list or message reaches a key that no longer
fires. An entry remembers whether its alert was open (`whileOpen`, history); it
is removed when the loop resolves the alert, and nothing else reads it.
`Trigger` writes a row whatever is open and tells nobody (`told` is "manual").
Slack is `InstanceMessages`' part.
`AlertLifecycle` says in six actions (`Record`, `Announce`, `WriteByHand`,
`Acknowledge`, `Close`, `Settle`) what all of this amounts to for one alert
while only the loop closes rows and finishes its cycles: recorded, announced
or silent, or written by hand, closed, and the acks and the incident it has then
gone before the loop records the next one. `Stage` reads an alert's place in that life off its row,
`told` and the row that is being closed.

**PollLoop.** `StartPoll` is a case of the select, `Skip` and `Collect` the two
outcomes of an instance's goroutine, `HandOver` the end of the poll. The
variable `reporting` says which collectors return the error of a failed query; it
is one of the constant `Reportings` and stays, for it is a property of the build
(as built, `{restart}`).
`handed` is what the reconcile loop gets: `AlertManager!Observe` takes its
trusted set, and an alarm is one more key there whose condition is reported.
Counts stop at the limit (the code compares no more), and a backoff is over at
any time. `silent` is history: attempts in a row without one answered query.

**InstanceMessages.** All maps are keyed by instance, so one instance is
enough. `updateInstanceMessage` is `Enter` (limiter and timestamp, under the
lock), `ReadAlerts`, `UpdateInPlace`/`PostNew`/`PostFails` and `Finish` (under
the lock); both goroutines run it, each with its `local` timestamp and alerts.
Time is abstracted to what the code compares: `limited` (a minute since the
last update), and `none`/`recent`/`old` for the two escalation clocks.

**AlertTable.** Every statement works key by key, so one dedup key is enough.
A row is a firing (`created_at`), a version, a resolved flag and the lifetime
statistics, of which `fireCount` stands for both. A write has two steps,
`Begin` (its SELECT) and `Commit` (the parts are visible), and other writers
come in between. `Trigger` is the dashboard's (runcheck.go:202-246; its comment
calls the insert "equivalent to what the background poll would do"): it looks for
no open row and names both statistics itself, so that `InsertAlert` carries
nothing over. `order` tells rows of equal version apart: FINAL and merges
prefer the last inserted, `LIMIT 1 BY` and `argMax` may return either. A merge
drops any superseded row. `outdated` is history: the writers whose last read
failed, met two possible answers, or was followed by somebody else's write, and
the trigger, which reads nothing.
ClickHouse itself is external, modelled from its documented semantics as the
code relies on them. `AlertRow` is what all the versions amount to: one row whose
firings follow one another. It is the table that `AlertManager` takes for
granted in `rows`; `Newest`, `Status` and `Racing` read it off the versions.

**PersistentStore.** The four stores differ in three ways: entries expire
(windows, snoozes), deleting prunes (snoozes), and the file is written in place
(windows) or through a `.tmp` file (the others). `kind` picks one. The file
system is modelled with inodes, because the hazard is a goroutine that writes
to a file another has truncated or renamed. `short` and `long` entries end
before and after `late` becomes true.

**Schedules, ThresholdSettings, MaintenanceView, AlertPanel.** Each has the
view's state, the server's state, and the requests between them as records: sent,
handled (the handler's steps, under its locks), answered. An answer may be lost
or late; the view is then told of a failure of something that was done all the
same. Thresholds are there three times: in the server's configuration, which the
handlers and a run check use, in the override file, and in the collectors, which
are built from the configuration before the file is read (main.go:284, 334) and
which nothing changes afterwards. History variables (`outdated`, `unsure`, `overlapped`) remember when a view
cannot know better: a failed request, a change made elsewhere, answers of two
reads in the wrong order. A threshold is a warn level next to a fixed critical
one; time is whether an interval has passed (schedules) or a small clock
(windows). `AlertPanel` is about acknowledgments or about snoozes (`kind`). The
index `byDedupKey` of the acknowledgments is left out: only `IsAcked` and `GetAck`
read it, and nobody calls them.

**ViewLoaders, LoaderCatalog.** Components that load data all do it in one way
and differ in small things that matter: on what the effect depends, whether its
cleanup cancels the request, whether old data are blanked, whether the error is
cleared, whether a timer loads as well, and whether the component is mounted
anew (a `key`) for another selection. `LoaderCatalog` has a record of these for
each component, at its lines, and `ViewLoaders` the behaviour of a loader with
such a record: selections and versions of the data change, requests are sent,
answered in any order, fail, or are cancelled.

**Navigation** has the URL as a record of the parameters the store reads, the
browser's entries with a position, and one action per handler with its own way
of writing the URL. **ChatSessions** has a copy of the sessions per page and one
in `localStorage`, and a stream per question that delivers an event, ends,
fails or is aborted; a page that is reloaded heals messages left streaming. A
session has the number of its first question, so that the set of them is the
list, newest first.
**AlertScreen** and **AlertList** are the two halves of the alerts view: what is
loaded and resolved, and what is listed of it. **QueryLog** has pages read at an
offset into two tables: the collector's copy (`query_samples`) and ClickHouse's
own log, which the handler falls back to, at the same offset, when the copy has no
rows there or cannot be read (history.go:1013-1021). If both fail, the answer is
an empty page, not an error, and the tab takes it for the end. Queries are
numbered as they end, so a page is a set of numbers; those of one second come in
any order (`PerSecond`), and the copy is taken of later seconds than it has.
`pagesOf` is history: the sources of which every page shown was the page asked
for. **TableScanner** keeps React's order of effects: the
two effects of a commit see the state before either. **Terminal** has a request
per node and execution, and a controller that is aborted. **Reauthentication** has
the refresh, the modal, its stream, pasted tokens and the timers that close it.
**RunCheck** has both tabs and the row that a trigger writes; `crossed` remembers
that two triggers were under way at once. **SavedLists** is three lists that
differ in whether a page writes the copy it mounted with or reads before it
writes. **TableComparison** and **SettingsComparison** compute
from the server's answer what the view says of each row. **WidgetLayout** merges
a stored layout with the widgets of a newer build.

## 3. Checks

| Run | Checks | Bounds | States |
|---|---|---|---|
| `reconcile` | counters, resolves, closing of rows (`HoldsUnderFaults`: also under every fault, with the type invariant); announcements, single firing, incidents, acks, evidence, the life cycle's refinement | three parts. "orderly": 2 keys, one inhibiting the other, threshold 2; "by hand": 1 key, threshold 2, with acknowledgments and triggers; both without a dashboard resolve, a sweep, a crash, a failing insert or read, or an unreported query failure. "faults": 1 key, threshold 3, every event but acknowledgments | 0.80 M |
| `progress` | types, alarms, the breaker, recovery, requests; liveness of the reconcile loop; the Slack message heals | 2 instances, 2 collectors of which any subset returns its errors, limit 3; 1 key, threshold 2, transient faults; 1 alert, 2 messages, 1 restart, all events of `InstanceMessages` | 67 k |
| `server_parts` | the row's refinement, merges, clean-up, statistics; files; views and what the server has | 2 firings of 3 versions in five environments; 2 entries, 1 goroutine, four kinds of store, failing disk, crashes; 1 schedule and 4 requests; 2 pages, 2 saves, 1 restart; 1 window and 4 requests; 2 keys, 2 entries, 4 requests | 1.37 M |
| `browser` | what views show, spinners, lists and triggered rows, navigation | every loader of the catalog, 2 selections, 2 versions, 3 requests; the query log: pages of 2, 4 queries, 2 in a second, 1 reload; the bounds of the other parts are in `Browser.cfg` | 1.63 M |
| `am_flaky` | finding | 1 key, threshold 2, failing queries only | small |
| `ack_late` | finding | 1 key, threshold 2, acknowledgments only | small |
| `breaker_silent` | finding | 1 instance, 2 collectors of which one returns its errors, limit 5 | small |
| `slack_all_clear` | finding | 1 alert, 3 messages, no fault at all | small |
| `table_merged_stats` | finding | 3 firings, merges only | small |
| `stores_overlap` | finding | 2 entries, 2 goroutines, no disk failure | small |
| `thresholds_restart`, `thresholds_live` | findings | 1 page, 2 saves, 1 restart, a critical level of 3 | small |

Deadlock is not checked: the bounds stop every one of these systems, and the
monitor has no state in which a goroutine waits for another but the poll that
waits for its instances, which `progress` covers by liveness.

Why these bounds are enough to be interesting. A threshold of 3 has a first, a
middle and a last clean check; every fault can fall between any two. Keys
interact only through inhibition and PagerDuty's per-key limiter, so two keys
of one instance show every interaction; instances do not interact at all except
through the trusted set, where one instance that is or is not trusted covers
both cases. A second firing of a key is where a stale write meets a new row,
and three versions are insert, refresh and resolve. Two writers suffice for
every lost update. The five environments of the table are: all writers that race,
fail and crash, but no row by hand; a row by hand among the loop's and the
dashboard's, with failures and restarts; merges with each of these two writers;
and merges with failing queries, that of the earlier firings' statistics among
them. `created_at` has whole seconds; that two
firings of a key begin in the same second is left out, and so is a second trigger
before the first is answered. Two timestamps are the message that a
slow goroutine still holds and the one that replaced it. A limit of 3 has a failure that does
nothing, one that does not yet open the breaker and one that does; two
collectors are enough for none, some and all to fail, and two instances for a
poll that is half done. `progress` has every set of collectors that return
their errors: with all of them (what the `Collector` interface and `runReconcile`
expect) the breaker's own logic is visible, with fewer, and so as
`buildCollectors` has it, the breaker never opens (`BreakerNeedsAll`). In the dashboard two selections and
three requests are an answer that is overtaken by one that is overtaken itself;
two pages are a writer and one with an older copy; two entries of a page size
of one or two are a page boundary; four requests are a read before a change,
the change, the read after it, and a second change that crosses it.

Fairness. `AlertManager!FairSpec`: the poll loop is a `for` around a ticker, so
its steps are weakly fair; strong fairness of a fully successful observation,
read, insert and resolve says that faults are transient. Nothing is assumed of
users, sweeps or conditions. `InstanceMessages!FairSpec`: both goroutines run
on, the ticker ticks and time passes (weak); a query and a Slack request that
are tried again and again succeed now and then, and a tick now and then gets
past the limiter it has just lifted (strong); the counterexample of
`slack_all_clear` is found under the same fairness. `PollLoop!FairSpec`: the
loop runs, the ticker ticks and backoffs run out (weak), and the select, which
Go resolves at random, does not pass over a waiting request for ever (strong).
`MCProgress` states the same for the part that runs: one of its conditions may
stand for several parts, and is then one on each of them, because the others'
steps are never enabled. Of the dashboard no
fairness is assumed: its users may stop. That nothing turns for ever is stated
there as an invariant: whatever turns has something under way that ends it,
and requests end by their time limit.

What the passing runs say. Under every fault the model has, an alert resolves
automatically only after `resolveCleanChecks` cycles that trusted its
instance and did not see it, since it was last seen (`CountersTrackCleanCycles`,
`ResolveNeedsCleanStreak`); rows close by that, by a user or by the sweep
(`RowsCloseForAReason`). While the loop alone closes rows, what it persists is
announced, one firing at a time, incidents end with it, and so do the
acknowledgments that were given while it was open; no alert
resolves that was not clear in some cycle, and each lives the life of
`AlertLifecycle` (`ImplementsLifecycle`), also with rows that users write by hand
and with acknowledgments of what does not fire. Cleared
alerts are resolved, firing ones recorded and, after a window, announced. A
Slack message of an instance that goes on firing is always put right again. The
table is one row to its readers, of which a closed firing stays closed, unless
somebody writes on an outdated read or, like the trigger, on none
(`ImplementsAlertRow`); merges change no
reader's answer; the start-up clean-up leaves the firing that was shown; the fire
count is carried over as long as nothing is merged and no row is written by hand. A
store whose saves do not overlap loses nothing. A poll reports only instances
that have answered nothing for the limit's number of attempts
(`NoFalseAlarm`), goes on reporting them until they are collected (`AlarmHeld`),
and reports none at all unless every collector returns its errors
(`BreakerNeedsAll`); one that is back is noticed; a requested poll starts.
Views of thresholds, windows, schedules, snoozes and acknowledgments come to show
what the server has, unless a request failed or another page was the last to
write; for thresholds that is not what the poll loop uses, see the findings. What the
dashboard's views show belongs to what is selected or is marked as loading, an
error is of the last request, no list loses an entry to another page that read
before it wrote, and links open what they were taken from. Pages of the query
log fit together as far as they came from one source, each being the page asked
for; pages that came from the two sources in turn, or that were empty because
both had failed, may leave rows out, and the property says nothing of them.

Several of these properties are conjunctions over parts (`ListsAreWhole`,
`ClaimsAreTrue` and others in `MCBrowser` and `MCServerParts`): each conjunct is
named and stated in the module of its part.

Findings (`PROJECT.json` quotes the lines):
1. `am_flaky`: failed queries leave the instance trusted, and its alerts
   resolve.
2. `breaker_silent`: for the same reason the circuit breaker never opens, and an
   instance that answers nothing is never reported unreachable.
3. `ack_late`: an acknowledgment that comes after the resolve is kept, and the
   next firing starts acknowledged.
4. `slack_all_clear`: the limiter can swallow the all-clear for good.
5. `table_merged_stats`: a merge of a resolved row resets the lifetime statistics.
6. `stores_overlap`: an older maintenance snapshot can overwrite a newer one.
7. `thresholds_restart`: saved thresholds are all zero after a restart (for the
   settings page and a run check; the collectors keep the configured ones).
8. `thresholds_live`: thresholds that are saved reach no collector of the poll loop.

Other things met on the way, for which there is no run, and which the
properties leave room for. Acknowledgments silence nothing: `ack.go:13` and
`AlertDetailPanel.tsx:976` say that they do, but no path of a notification asks
for them, which is an absence that no trace would show. (Removing the newer of two
acknowledgments also drops the index entry of the older, which would matter if
the index were asked.) The dashboard extends a window by a field `end_time` that
the server ignores (`Maintenance.tsx:134-136`, `maintenance.go:67-71`): the window
ends as before although the view says that it was extended. A page of the query
log that could not be read from either table is an empty page, and the tab says
"End of results" (`history.go:1016-1019`, `Explore.tsx:1652`). A row triggered by
hand is announced by nobody, may stand beside an open one of its key, and starts the
fire count again (`runcheck.go:202-246`). Two alerts of a dry run
triggered in turn, and the first once more before its answer, make two rows of
it, because one `triggeringKey` is remembered and pressing the second button
enables the first again
(`RunCheck.tsx:441-459`; the attempt to prove
`TriggersWriteOnce` for any number of triggers showed it, the run has three); an escalation clock that survives a skipped
all-clear; a PagerDuty incident of an insert that failed (`NoOrphanIncident`
is checked without failing inserts); the stores' shared `.tmp` file
(`RestartLosesNoSave` is checked with one writer); a setting that one node alone
has changed, which `compare.go:735` does not count as a difference; the alert
panel keeps the suggestions of the first category it was opened for
(`AlertDetailPanel.tsx:865`); a chat answer that failed is notified as done
(`lib/notify.ts:121`); with the status filter "success", pages of the query log
may stay out of reach (`Explore.tsx:1574`).

## 4. Proofs

The theorems hold for every value of the constants that satisfies the
assumptions of the component's module and the hypotheses given here. Where a
hypothesis excludes an event, that event is needed: with no other of the excluded
ones TLC finds the property violated.

### The reconcile loop: `AlertManagerProofs`

`AlertManager` assumes that the threshold is a positive number, that every key
has an instance and a set of severities, and that the environment consists of
known events.

| Theorem | Property | Excluded events |
|---|---|---|
| `TypeCorrect` | `[]TypeOK` | - |
| `CountersAreHonest` | `[]CountersTrackCleanCycles` | - |
| `ResolvesAreEarned` | `[]ResolveNeedsCleanStreak` | - |
| `ClosingIsJustified` | `RowsCloseForAReason` | - |
| `FiringsAreSingle` | `[]OneFiringPerKey` | `read` |
| `FiringsAreAnnounced` | `[]EveryFiringAnnounced` | `crash` |
| `AcksAreForThisFiring` | `AckEndsWithFiring` | `ui`, `sweep`, `crash` |
| `IncidentsEndWithAlerts` | `[]NoOrphanIncident` | `ui`, `sweep`, `insert`, `pagerduty`, `crash` |
| `LifecycleImplemented` | `ImplementsLifecycle` | `ui`, `sweep`, `read`, `insert`, `pagerduty`, `crash` |

Neither counter property is inductive alone. The invariant `IInv` adds three
facts. `StreakRunsAhead`: between the observation and the accounting, the
history already counts the present cycle and the counter does not, so the
history is strictly ahead for a key that is about to be counted; this is what
makes the counter's increment safe. `NothingQueuedYet`: no candidates exist
before the accounting. `PersistIsObserved`: rows are inserted for observed keys
only, with their observed severity, so that an insert cannot close a row. The
proof that a step keeps `IInv` goes action by action.

The other five theorems are about what one cycle does to the rows while others
write to them. They share `QueuesInOrder`, which says what the cycle's queues
may hold at each `pc`: announcements are of observed alerts, inserts are done
when resolves are worked off, and one row at a time is being closed. On that rest
`NothingOpensMeanwhile` (a key to be inserted is still not open, or open by hand: only an insert
of the loop or a trigger by hand opens a row, and the snapshot said that none was),
`UntoldIsQueued` (a row that nobody was told of waits to be announced, or is
neither open nor in the snapshot, whose refresh might open it again), `LooseEnds` (an acknowledgment or an incident of a key
without a row is one that the loop is about to clear; of acknowledgments those that were given while the key was
open, the others are the finding `ack_late`) and `PagesHaveRows` (who
is notified has a row, or is about to get one).

`LifecycleImplemented` is the refinement. `LifeInv` collects these
invariants, with `RowsInStep`: a row that the cycle is closing is closed in the
table already. `StageChanges` says which stages a
step of the loop can change and how; then each step is one of the abstract
actions or a stutter: an insert is `Record`, a notification `Announce`, a
resolve that succeeds `Close`, its announcement `Settle`, a trigger `WriteByHand`,
an acknowledgment `Acknowledge`, whatever is open, and everything else
(observations, snapshots, accounting, refreshes, failed resolves, windows,
snoozes) changes nothing of an alert's life.

What these theorems say of rows that users write by hand is little, and that is
how it is: nobody announces them (`told` is "manual"), and one may stand beside
the firing that the loop is about to insert. They exclude none of these rows.
`ResolvedOnEvidence` is checked and not proved: it holds without unreported query
failures only, and the collectors as built have them.

### The poll loop: `PollLoopProofs`

For every set of instances and collectors, all sets of collectors that may report
and every positive limit:

- `BreakerTypeCorrect`: `Spec => []TypeOK`, with `MapsAgree`: a backoff entry
  exists exactly while the count is full;
- `AlarmsAreTrue`: `Spec => []NoFalseAlarm`, whatever collectors report;
- `AlarmIsHeld`: `Spec => AlarmHeld`, likewise;
- `BreakerStaysShut`: `Spec => []BreakerNeedsAll`: unless every collector returns
  its errors, no failure is counted, nothing backs off and no instance is ever
  reported, which is how `buildCollectors` has it.

The invariant relates a poll in progress to the breaker: an instance adds one
snapshot a poll (`OneSnapshot`), an alarm in it is the full count
(`AlarmIsFullCount`), an alarm handed over earlier is repeated by an instance
still to be looked at (`AlarmCarriedOver`), and the count never runs ahead of
the attempts that really failed (`CountIsHonest`). `BreakerNeedsAll` is inductive
with the types: a collection fails only if all collectors return an error
(`CollectionFailed`), one that returns none resets the count, and without a
count there is nothing to skip.

### The alerts table: `AlertTableProofs`

For any number of firings and versions, whatever the environment does:

- `TypeCorrect`: `Spec => []TypeOK`;
- `MergesChangeNoAnswer`: `Spec => MergesAreInvisible`. FINAL, `LIMIT 1 BY` and
  `argMax` look at rows of the highest version only, and a merge keeps one of
  these per firing (`MergeKeepsAnswers`);
- `OnlyRacesUpset`: `Spec => CoherentWithoutRaces`: a step that leaves a table
  its readers disagree about is the commit of a writer whose read is outdated, or
  of the trigger, which reads nothing. `ReadsHold` is the
  invariant: what a writer that is not outdated has read is still what the
  table says, so that its write is newer than every row it has not seen;
- `RowImplemented`: `Spec => ImplementsAlertRow`, the refinement, from the same
  invariant. A commit on a current read is `Fire`, `Resolve` or a refresh
  (`SoundWriteIsRowStep`), a merge and ageing change nothing of a coherent row
  (`MergeIsRead`, `AgeingIsRead`), and any other write is a `RacingWrite` of an
  outdated writer, the trigger's included, or a `Repair`; none forgets a firing (`NewestGrows`);
- `CleanupIsComplete`: `Spec => CleanupLeavesOne`, with `CleanupPlan` about the
  rows that the start-up clean-up has chosen and not yet written;
- `CountsAreCarried`: `Spec => []FireCountAdvancesUnmerged`. Inductive is
  `CountsAdvance`, which also says it of the rows about to be written. It holds
  while merges, failing statistics queries and triggers by hand are not in the
  environment (the property says so itself). `table_merged_stats` is what happens
  with merges; a trigger names a fire count of 1 and so skips the lookup.

### The stores: `PersistentStoreProofs`

For the four kinds of store, any set of entries, with failing disks and
crashes, and two hypotheses:

- `SavesAreKept`: `Spec => []FileMatchesMemory`;
- `RestartsLoseNoSave`: `Spec => RestartLosesNoSave`.

`OneWriter` says that saves do not overlap; `stores_overlap` is the
counterexample. `Room` is about the model only: the inodes suffice, so
that a create always finds one that no name refers to. `SavesInOrder` follows a
save through its steps: what it is about to put down is what counts in memory,
what it writes to is the target, emptied, and what it renames is complete.
`FileIsGood` says that whatever step a save has reached, a start would load what
was saved last. The store of windows writes in place and
is excluded from the second property by the property itself.

### The views: `ViewProofs`

For every record of a loader, not only those of the catalog, and for any number
of requests, versions of the data and values of the inputs:

- `LoaderInvariant`: `Spec => []IInv`, with the type invariant;
- `NothingStaleIsUnmarked`: `Spec => []NothingStaleUnmarked`;
- `DataOnlyAdvances`: `Spec => DataAdvances`;
- `ViewsSettle`: `Spec => []SettlesOnSelection`;
- `NoErrorOutlivesItsFailure`: `Spec => []ErrorsAreCurrent`;
- `SpinnersHaveRequests`: `Spec => []SpinnerEnds`.

`NothingStaleUnmarked` says nothing of the requests under way, so a late answer
could break it. The invariant adds that what is still waited for was asked about
the present selection (`LiveIsForSelection`: a change of an input cancels the
rest), and splits the property by the two ways a view is candid: it drops its
data before it asks (`BlankedIsCurrent`), or it shows that it is loading or has
failed (`MarkedWhenStale`). For `DataAdvances` it adds that one request at a time
is waited for (`OneIsLive`) and that its answer is not older than the data
(`LiveIsNewer`), which holds because nothing is newer than the server
(`NothingIsNewer`).

`ViewsSettle`, `NoErrorOutlivesItsFailure` and `SpinnersHaveRequests` are about a view at rest, where the outcome that was applied
last decides what is shown. `RestInv` relates it to the newest request: requests
are numbered in the order they are sent (`Numbered`), the newest one is about
the present selection (`NewestIsForSelection`), it is under way, was overtaken,
or it is the one that was applied last (`NewestDecides`), and an error is gone
when a later answer has come (`SuccessIsClean`).

### The operators' views: `ServerPartsProofs`

`MCServerParts` puts the table, the stores and the four views with their
handlers side by side; its constants have values in `ServerParts.cfg` only, so
its theorems hold for any number of schedules, pages, windows, keys and
requests, and for any table. Its steps are steps of one part while the others
rest (`OnePartSteps`), so each part has an invariant of its own.

| Theorem | Property | Hypotheses |
|---|---|---|
| `TheViewsShowTheServer` | `[]ViewsShowTheServer` | - |
| `ButtonsHaveRequests` | `[]ButtonsReturn` | - |
| `OnlyDueRuns` | `RunsAreDue` | - |
| `FilesAreTrue` | `[]FilesMatchMemory` | `OneWriter`, `Room` |
| `RestartsBringBack` | `RestartLosesNoSave` | `OneWriter`, `Room` |
| `ServerTypeCorrect` | `[]ServerTypeOK` | `OneWriter`, `Room` |

The hypotheses are those of `PersistentStoreProofs`, whose theorems the stores'
part takes over (`StoresSame`: two instances of a module with the same
constants). `TableIsThere` says the same of the table: the theorems of
`AlertTableProofs` hold in every behaviour of the composition.

What a view shows when it waits for nothing is decided by what was under way
before, so none of these properties is inductive. Each invariant says what the
requests under way will bring.

- `SchedulesInv`: the list shows the store or will be read again
  (`ListIsComing`), where a request that has been handled and not yet answered
  counts, because the view reads again on its answer; a list that was handled
  has been read (`ListsAreRead`). For `OnlyDueRuns`, what the runner still holds
  as due is due or known to be stale (`DueOrStale`).
- `ThresholdsInv`: every save has its number, and is waited for by its page or
  was given up while its file was written (`PagesInOrder`); of the page that
  saved last, what it has loaded is the server's configuration or the answer that
  says so is on its way (`AuthorIsRight`); between file and configuration there is
  one save at a time unless saves have overlapped (`FileLeads`). The collectors'
  copies are in the model and in no invariant: see the finding `thresholds_live`.
- `WindowsInv`: one creation and one extension at a time, as the buttons allow
  (`OneOfAKind`); the list agrees with the server or is to be read again
  (`WindowsAreComing`, `WindowsAreRead`). The windows that the view has extended
  on its own are left out: the server does not know of it.
- `PanelInv`: the newest list that the panel has asked for will be right, and
  the newest it has got is (`NewestListIsRight`); lists are numbered
  (`PanelNumbers`).

### The dashboard: `BrowserProofs`

`MCBrowser` runs the parts of `BrowserParts` and of `BrowserLists` and the
loaders. The theorems hold for any number of instances, pages of the dashboard,
questions, requests, alerts, queries, tables, settings, widgets and collectors,
for any size of a page, and for any length of the histories and stacks; the
assumptions of the modules on their constants are all they need (`PartsFit`,
`ListsFit`).

| Theorem | Property | About |
|---|---|---|
| `LinksAndBackHold` | `[]NavigationHolds` | `Navigation` |
| `NothingWaitsInVain` | `[]NothingHangs` | the loaders, `AlertScreen`, `Reauthentication`, `ChatSessions`, `Terminal`, `RunCheck` |
| `ScreensAreCurrent` | `[]AnswersAreCurrent` | `AlertScreen`, `Terminal`, `RunCheck`, `TableComparison` |
| `WhatIsSaidIsTrue` | `[]ClaimsAreTrue` | `AlertScreen`, `RunCheck`, the two comparisons, `ChatSessions` |
| `ListsLoseNothing` | `[]ListsAreWhole` | `QueryLog`, `TableScanner`, `DataTable`, `AlertList`, `SavedLists`, `WidgetLayout`, `RunCheck` |
| `BrowserTypeCorrect` | `[]BrowserTypeOK` | all fifteen parts |

`BrowserPartsProofs` and `ViewProofs` have an invariant for each part, and two
lemmas: it holds at the start, and the part's steps keep it. `BrowserProofs` puts
them together (`OnePartSteps`, as above), and takes the loaders' conjuncts from
their theorems (`LoadersAreThere`).

- `NavInv`: a link is right because the URL records every part of the screen but
  the view that `navToScanner` leaves behind (`ScannerIsUnrecorded`). For the back
  button, no view is on the stack twice in a row (`StackChanges`): when the top is
  popped, the next one is another view (until the browser's own buttons move past
  the stack, which the property leaves out).
- `AsInv`: what the two requests of a load have read lists nothing as firing that
  was settled before they were sent (`ReadingOK`); of an operation on several
  alerts those whose requests were answered are resolved for good, and it reads
  the lists only when all were (`OpOK`).
- `ReInv` is the properties themselves with the types; they are inductive
  together (`ReTimers`: every timer comes of a paste or of the login of an opening).
- `TermInv`: every request under way is of the execution that can be aborted, and
  that is the last one; until it ends, the history has earlier ones only.
  `TermFlags` is what the type invariant adds.
- `ChatInv`: questions are numbered without a gap, so a new one has a stream that
  nobody has used; the stream a page's input field waits for is a chat's, and of
  that page; what the panel has told follows from how far its stream is
  (`PanelTells`). `CopiesOK`, about the copies of the sessions, holds until a page
  takes over another's, which is where `SpinningIsAnswered` ends, too.
  `CopiesTyped` is what the type invariant adds.
- `RunsInv`: a run has its tab to itself, and what it has still to do and what it
  has done are the pairs of the tab (`RunsCover`); a collector that reports its
  errors and came back clean has looked (`CleanIsUnmet`).
- `TriggersInv`: as long as no two triggers were under way at once and no answer
  was lost, there is at most one, its alert is not marked yet, and the rows of an
  alert are those of its mark or of the trigger (`Accounted`).
- `TsInv`: the newest load is about what is selected, and it is under way,
  overtaken, or the one that was applied last; the database chosen since lies
  within what it loaded.
- `SlInv`: the stored list has what is due and nothing that was removed
  (`SlKeeps`), of notifications always, of the others while one page writes; then
  that page's copy is what is stored.
- `TcInv`, `ScInv`: what the banner and the differences say is about the present
  answer only; the invariants are types, and that the selected nodes are the
  stored ones. The work is in the lemmas: a finite set of nodes has greatest and
  least rows (`MaxAndMin`), a node that is in the first one's key and columns is
  in every other's, and a share on S3 is within the limits of all
  (`IdenticalIsTrue`).
- `QlInv`, of each source by itself: the rows shown go down to the place in the
  source that the next offset names, or past it when queries have arrived since
  (`InOrder`, `RowsFit`); a page that is on its way fits below them (`FitsBelow`).
  What comes to a source is newer than the rows seen, and what leaves it is its
  oldest (`Turned`), so the others move down, never up (`PlacesGrow`), and a page
  may repeat rows and cannot leave one out. For the copy this needs that it takes
  later seconds only, hence later queries (`LaterSecond`), and that what came from
  it stays in it (`QlSeen`).
- `AlInv`: the cursor is on a row of the filtered list, or nowhere. That counters,
  groups and filters agree is arithmetic on finite sets (`ListAgrees`).
- `DataTable`: its invariant is its type. `PagesAreRight` is about what is computed
  from it: counting the rows that come before a row numbers them without gap or
  repetition (`RanksNumber`, the lemma behind the places of the query log, too), so
  the sorted rows are the rows (`RanksPlace`), the pages divide them, and the page
  shown begins with a row (`PageIsThere`).
- `WlInv`: a layout has each widget of its build once, at a place of its own
  (`Whole`), and what is not stored comes after what is; completing a stored layout
  with the newer builds' widgets keeps it so (`CompletedIsWhole`).

### What stays with TLC

Liveness (`ClearedIsResolved` and the other temporal properties of `progress`):
the prover does not reason about fairness and ENABLED. `InstanceMessages`
has no safety property but its type; what matters of it is liveness.
`HoldsUnderFaults` is three of the reconcile loop's properties, proved in
`AlertManagerProofs`, of a second instance. `ResolvedOnEvidence` is checked in
`reconcile`, where no query fails unreported, and refuted in `am_flaky`, where
some do.

## 5. Not modelled, and why

- Metrics, health and digest tables are append-only. Collectors, report
  handlers, exporter and configuration keep no state that several actors change.
  Chat, terminal and analysis back ends run external programs.
- `resolveAlertAllInstances` is reached only by keys that name no known
  instance, `BulkTouchAlerts` by nobody.
- The webhook notifier, the digest scheduler and the Slack app's pinned
  dashboard and commands: small state machines of their own, left for later; what
  they change in the stores and the table is in the modules above.
- The analyzer's arithmetic: windows and scores over floating-point numbers.
- Of the dashboard: charts, cards and what is computed for display; the
  playbooks and suggestions of the alert panel; the terminal's editor; the older
  form that submits a callback URL; the side-by-side comparison of two tables.
  `views/Dashboard.tsx` and `views/Discover.tsx` are imported by nothing.

Hazards that no property covers are listed in `PROJECT.json` with the reason.

## 6. Plan

Done: the monitor's core, the dashboard, the views together with their
handlers; the refinements of the life cycle and the row; proofs of the
reconcile loop, the poll loop, the table, the stores, the views' loaders, the
views with their handlers and all parts of the dashboard.
Next, in this order:

1. `HoldsUnderFaults` as a theorem: the three properties it names, of the second
   instance of the reconcile loop in `MCReconcile`.
2. `PinnedDashboard` (pinned timestamp, state file, debounce) and the notifiers'
   limiters, with the digest scheduler.
3. The analyzer's windows and scores as pure operators over integers.
