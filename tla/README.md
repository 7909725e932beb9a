# pg-stress in TLA+

pg-stress loads a PostgreSQL database with generated traffic, steers that load
from a control plane, and watches the database from a dashboard. This directory
holds TLA+ models of its concurrent core, the TLC configurations that check them
on small instances, and TLAPS proofs of the safety properties for every value
of the constants. `PROJECT.json` maps each definition to the source lines it stands
for, and lists the runs, a mutant for every property, the hazards, the findings
and the theorems.

    tlc -workers 2 -config TestRuns_serial.cfg MCTestRuns    # one run
    tlapm TestRunsProofs.tla                                 # one proof module

## 1. Inventory

| part | state | operations | who else touches it |
|---|---|---|---|
| control plane (`control-plane/main.py`, FastAPI, handlers in a pool of forty threads) | dictionary `jobs`, the replay engine, the schema graph; containers through Docker | start/stop a test, inject, bulk update, cascade, spikes, ladder, flush, replay, schema refresh, generators' start/stop/restart, intensity, import, analyze | UI tabs, the dashboard (HTTP both ways), PostgreSQL |
| replay engine (`query_replay.py`) | `running`, `stop_event`, `stats`, `_threads`; tables of query sets and results in SQLite | start, stop, worker threads | every handler thread, no lock on the engine |
| schema graph (`schema_graph.py`) | a networkx graph, `loaded`; a cached row in SQLite | load, refresh, plan of a cascade | startup hook and handlers, no lock on the graph |
| dashboard (`dashboard/app`, one asyncio loop) | SQLite store of samples, test runs, baselines, events | notifications of starts and stops, baseline, samples, prune, read endpoints | control plane, poller, safety monitor |
| metrics poller (`pg_poller.py`) | the previous measurement | measure over several awaits, store one sample | the store's active run |
| safety monitor (`safety_monitor.py`) | none but the pass under way | prune tables over their limit | the prune endpoint, the load, the statistics of PostgreSQL |
| load generator (`load-generator/main.go`) | database tables; goroutines, a connection pool | bursts of shopping operations, chaos patterns, graceful stop | PostgreSQL row locks |
| ORM generator (`load-generator-orm`) | a profile, classes, lists of tables; threads, an event | wait for data, introspect, reflect, random operations, shut down | migrations and locks of PostgreSQL, Docker's restarts |
| query sets (`query_replay.py`, the store) | rows in SQLite behind one lock, a transaction that may stay open | import of files, requests and the directory, delete, read | handlers, the startup, the replay |
| generators' containers (`main.py`, Docker) | containers, `os.environ`, `.env` | presets, start, stop, a test's stops and restarts | handlers without a lock, Docker Compose |
| pgbench runner | result files | pgbench in a loop | PostgreSQL |
| control panel (`ui`), dashboard page | per tab: the active job | POST, poll | control plane, dashboard |
| truth service (`truth-service`) | none | read the collector's JSON lines, compare with SQL | files another process appends to |
| analyzer, analytics, import, scripts, CI | a report file at most | one sequential pass each | - |

**What makes it hard.** Two handlers run in two threads without a lock, and the
test lifecycle spans two services: a start reads the active run, ends it, restores
the database, records a baseline, announces the run and restarts containers, and
any of the six may fail, time out or be overtaken. A notification that timed out
after five seconds may still be handled. Jobs live in memory only, and their
dictionary is cleared under them. A stop of the replay joins each worker for five
seconds and then gives it up. The graph is emptied and refilled in place while
others walk it. Goroutines lock rows in transactions that a context may end
between any two statements. An import that raises leaves a transaction open that
the next commit completes. A preset removes a container before it has another. The ORM
generator reads the schema three times while a migration may change it, and the truth
service reads files that are being written.

**What makes it right**, component by component:

- test runs: one run open at a time; a closed run is final; its two snapshots
  can be subtracted; nothing was restored between a run and its baseline; calls return.
- replay: counts belong to one replay, whose workers none other kills; a stop saves its
  results; nothing runs beyond the reach of a stop.
- jobs: what has ended is shown as ended, and stays so; a report is within what was
  asked; every function ends; the scenarios of a tab that keeps track do not overlap.
- schema graph: a plan has each table once, level by level and after the parent it was
  reached from, and all of them; graph and cache hold only what was read.
- load generator: nothing sold that is not there, no unit lost, what it ships belongs to
  an order under way, every burst ends.
- safety monitor: only the oldest rows go; each pass ends; the limit is restored.
- query sets: what was answered survives a restart; results refer to stored queries;
  the directory is loaded once.
- generators: none is lost but by a failed creation; the level asked for last is in
  force; what a call takes down comes back.
- ORM generator: the chains are the paths along the keys; reads fail only for a reason
  of the schema or on what was dropped under them; the process ends when told, and gets
  to work again.
- truth service: the newest sample is compared; an honest collector is failed only
  for a reason.

The hazards of each component, at the line where they bite, are in `PROJECT.json`.

## 2. Modules and the code they model

    RunLedger <--implements-- TestRuns <-- MCTestRuns, TestRunsProofs
                              Replay   <-- MCReplay, ReplayProofs
                              Jobs     <-- MCJobs, JobsProofs
                              SchemaGraph   <-- MCSchemaGraph, SchemaGraphProofs
                              Storefront    <-- MCStorefront, StorefrontProofs
                              SafetyMonitor <-- MCSafetyMonitor, ObserversProofs
                              QuerySets     <-- MCQuerySets, QuerySetsProofs
                              Generators    <-- GeneratorsProofs
                              OrmLoad       <-- MCOrmLoad, GeneratorsProofs
                              TruthCheck    <-- ObserversProofs

**TestRuns.** `Clients` are handlers of `/tests/start` and `/tests/stop` under way
in the control plane's pool. A handler's `stage` is the call it makes next: look
the active run up, notify a stop and wait, reset (stop generators, restore,
snapshot, save the baseline), notify a start and wait, restart the generators. A
generator that `find_container` does not find goes on through the reset, and a
`pg_restore` that fails is logged and the call goes on: `Restored` is the dump, a part of
it, or what was there. Anybody may write at any time (`Write`), as jobs, a replay and
pgbench do.
The store's tables are sequences (`runs`, `baselines`, `samples`); the dashboard
is a single event loop, so serving a notification is one action. `net` holds the
notifications; one that its sender no longer awaits stays there and may be served
later. A snapshot of the database is the number of the restore it
saw and of the writes since, which is what a subtraction of two snapshots depends
on. `Poll*` measures first and stores later, under the run that is active *then*.
The faults are named in `FaultKinds`; a run picks those it wants. The intensity of
a test is not there: `main.py:1012` imports a function that does not exist and
swallows the failure, so nothing is ever applied.

**RunLedger** is what the store promises: a sequence of closed runs and at most one
open run. `Open` starts one and closes the one before it without a second snapshot,
`Close` ends the open one with a snapshot. `TestRuns!Ledger` maps the table to it.

**Replay.** One action per statement that reads or writes the shared engine, as
Python threads may switch between any two; a worker is started by one (`Spawn`) and
entered into the list by the next (`AppendThread`), and a thread that cannot be started
ends the call in between (`SpawnFails`). A generation is one `stats`
dictionary; its counters are abstracted to the set of generations whose workers
have counted in it. Query sets share no query id (each id is an autoincrement key),
so a worker that meets the statistics of another set raises instead of counting, and
is "lost". `gaveUp` records that a join has ended before its worker.

**Jobs.** A `Task` is a function the pool runs, a `Job` its row in the dictionary; they
part when somebody flushes. One action is one batch. Whether the rows an update has
updated match its clause again (`again`) is chosen when it begins. `left`, `done` and
`real` tell apart what is to do, what the code counted and what the database answered,
as `main.py:430` counts a batch of 0 rows as complete; a statement the caller gave with
an inject (`template`) may answer with any number. `complete_job` writes the status
first (`Verdict`) and the rest later (`Report`), with polls and flushes in between. A
cascade runs the inject of one table after the other, each with a job of its own.
`Request` stands for any caller of the API, with a template or a batch size of zero;
`Press` for a button of a tab, which only its own POST and the job the tab polls disable
(`page.js:694`, 735, 810, 833), so that a second scenario can be started before the
first one's answer. The job a tab polls is in its memory alone, which a reload or a lost
answer empties and which an answer to an earlier poll may clear: a tab to which one of
these has happened, or that pressed before it was answered, is `astray`.

**SchemaGraph.** A build is replace, add nodes (those of the build that began last, as
all share `self.tables`), add edges one by one; a walk pops a table, iterates over its
successors, and raises when the dictionary it iterates over grows. A load compares the
hash (tables, not keys) with the cached row.

**Storefront.** A goroutine is in its loop, waiting for a connection or a row, or
inside a transaction; committed data changes at the commit only. Checkout and
flash sale lock the stock row first; order and shipment updates pick by subselect
in a snapshot and write when they reach the row. The generator runs on the seeded
database only, so `Init` has the seed's orders and shipments in any of their states
(`SeededOrders`, `SeededShipments`, of pending orders too) and reserved stock.

**SafetyMonitor.** Rows are the numbers of their insertions. `estimate` is
`n_live_tup`, which sessions report late, `ANALYZE` corrects and a reset clears. A
DELETE picks its rows and deletes those still there. Prune requests go by a true
count and one batch.

**QuerySets.** `disk` is what is committed and `view` what the shared connection
sees; they differ while an import that raised has left its transaction open. Each
operation is one action, as they all hold the lock. The startup loads the directory
(`boot`), a request may reload it, a replay plays a set and files its results under
the queries it read. A restart turns `view` into `disk`.

**Generators.** A handler walks the services of its request: it finds a container by
label, and stops, removes, restarts or recreates it by id, one Docker call per
action; in between others may have replaced it. The settings of a container, of
`os.environ` and of `.env` are named by the preset they came from; a file that cannot be
read or written ends the request with `os.environ` changed already (`DotenvRaises`).
The death of the control plane between a removal and the creation that follows is not
modelled. A handler of
`/generators/start` spawns Docker Compose with the environment of that moment (`Spawn`)
and the container comes later (`Up`). The resets of a test run are here for what they
do to containers, and in TestRuns for what they do to the store.

**OrmLoad.** `phase` is how far `main` is; the introspection inspects one table per
action, so that a migration (`Drop`) comes in between. The chains are computed by a
recursive function (`Walk`) that walks in the code's order, duplicates included; then
the duplicates go and a stable sort is applied. `Statements(op)` is, for each of the
ten operations, the statements it may come to, given the lists of `OperationContext`
and the early returns: the tables each names, and whether it asks for what is not to be
had. It is computed once, when the context is. Reflection is two passes (`Reflect`,
`Prepare`), with a drop in between, and the relationships follow the one or the other
(`mapped`). Which tables get a
class (`HasClass`) is the library's rule: a table without a primary key and one that
only links two others have none. A write may raise for reasons of the rows (a natural
or composite key, a unique column); a read when a table is gone, when the relationship
its exists filter takes is a scalar, as between two tables that refer to each other
(`get_relationship_attr`), and when the column it sums is an array of numbers.

**TruthCheck.** Of a file the model keeps the last complete line and the one being
written (`part`, or `whole` when only its end is missing). The verdict is computed
with the tolerances as fractions; a sample leaves zeroes out, as the collector does
(`test_jsonl_reader.py:93`).

## 3. Runs

All runs use small model values; each bound is a CONSTANT of its module.

| run | instance | what it shows |
|---|---|---|
| `test_runs_serial` | 1 caller, 2 calls, with and without dump, 1 write, 1 sample; restores, containers, snapshots and baselines fail | `DeltaMeaningful`, `StartsFromBaseline`, `HistorySealed` |
| `test_runs_concurrent` | 2 callers, 3 calls, no dump; timeouts, both services crash | `RunningIsNewest`, `ImplementsLedger`, `CallsReturn` |
| `replay_serial` | 1 caller, 4 calls, 2 sets, 2 workers | `OwnCounts`, `NoneLost`, `StopSavesResults`, `Stoppable`, `DrainAfterStop` |
| `replay_lost_results` | 2 callers, 4 calls, 1 set | finding: `StopSavesResults` fails |
| `query_sets_restarts` | 3 imports of up to 2 queries, 2 reloads at a time, restarts at any moment | `AnswersDurable`, `ResultsTraceable`, `StartupLoadsOnce` |
| `jobs_scenarios` | 1 tab with two buttons, another caller with the other three scenarios, 2 started, all faults, an empty batch size, templates, updates that match again and that do not | `ReportInBounds`, `RunningIsRun`, `OneScenario`, `JobSealed`, `TasksEnd` |
| `generators_presets` | 2 handlers, 3 services, 3 requests, 1 failing call of Docker or on `.env`, images with and without the label | `NothingLost`, `LevelApplied`, `ComesBack` |
| `schema_graph_rebuild` | 3 tables, 2 schemas, 2 callers (symmetric) and the startup, 2 calls, a migration, a restart | `GraphOfBuilds`, `CacheTrue`, `LevelOrder`, `PlanComplete` |
| `storefront_load` | 3 goroutines, 2 connections, 1 variant with 1 unit, a seeded order with its shipment, 2 more orders, 1 more shipment, all faults | `NeverOversold`, `StockLedger`, `ShippedUnderWay`, `RoundsEnd` |
| `orm_load_migrations` | 3 databases of 4 tables, chains of 2 and 3, 2 workers, 1 dropped table, restarts | `ChainsRight`, `ErrorsExplained`, `MainEnds`, `ComesToWork` |
| `safety_prune` | a table of up to 4 rows with limit 2 before one without `created_at`, 1 request, 1 fault | `LatestKept`, `PassEnds`, `LimitRestored` |
| `truth_check_tail` | 3 files, 2 samples, 2 changes of the database, a clock of 3 values | `NewestSample`, `FailHasCause` |

No run lists a type invariant: they are proved, for every module. The properties the
theorems of section 5 state are checked by TLC on these instances.

**Why the bounds are enough.** Two calls, one after the other, let a run with a baseline
be superseded or stopped; three, at once, let two starts overlap a stop; a fourth lets a
late stop meet a run begun after the one it was meant for. Two workers and four calls
give a stop that gives one of them up, a start over it, and a stop again. Three rows in
batches of two give a full and a short batch; a plan of `<<0, 2>>` an empty and a full
table; two scenarios are enough to overlap. The cyclic schema has a cycle, converging
keys and a child, and the migration drops one table and turns a key around. Three
goroutines on two connections and one unit make two wait for each other's row while one
waits for a connection. Four rows over a target of one take several batches of the pass,
with a request in between. Three imports let one raise, another commit its rows and a
restart lose a third. Two handlers and one failure let a preset remove what another call
holds by id. The ORM databases have a line one table longer than a chain may be, doubled
and converging keys, a two-table and a three-table cycle, a key of a table to itself, an
array among the numbers of a table, and tables without a class; one dropped table can
fall before, between and after the three passes. Three files make a torn one, an empty
one and a third, with samples on both sides of the age limit.

`CHECK_DEADLOCK FALSE` appears where callers, tabs or orders are bounded: a
behaviour then stops because the bound is reached. `safety_prune` needs none.

**Fairness.** TestRuns: each handler thread is scheduled (`Step(c)`); nothing is assumed
of the dashboard, of the network or of the restart after a crash, since a call must
return without them. Replay: handler and worker threads are scheduled and a query ends.
Jobs: pool threads are scheduled and a statement ends; of an endless update, and of the
tabs, nothing is assumed. Storefront: Go schedules goroutines, timers fire, and the
database answers a statement that waits for no lock; contexts have deadlines (`main.go`,
`context.WithTimeout`), so each wait has an end. SafetyMonitor: the loop runs the pass
and a request, sessions report their counts, autovacuum analyses a table that changed.
Generators: the handlers' threads run and Docker answers each call, be it with an error.
OrmLoad: the main thread runs and the introspection's queries are answered, the timer's
wait ends, and Docker applies its restart policy; no operation is assumed to end, as a
migration may hold its lock for ever. SchemaGraph, QuerySets and TruthCheck are checked
for safety only.

## 4. What the code does otherwise than it says

One run ends in a counterexample that a document excludes; the quotes are in
`PROJECT.json` under `findings`: a stop of the replay lowers the flag before it reads
`self.stats`; a start in between makes the results of the stopped replay unsaved for
good.

Met while modelling, without a run of their own:

- a bulk update repeats until a batch is short (`main.py:478-489`). With the documented
  example (`docs/04-control-plane.md:141`) the updated rows still match, so it never
  is, nor with the batch size of 0 that an empty field of the page sends
  (`page.js:733`), which nobody validates: `TasksEnd` excepts exactly these updates
  (`Endless`), and fails without the exception;
- "Only one scenario at a time" (`page.js:636`, `docs/02-quickstart.md:185`): a tab
  disables a button until its own POST is answered and all of them after, so two
  buttons pressed before the first answer start two scenarios; nor does the control
  plane refuse a second one. `OneScenario` is of tabs that wait;
- a job is completed before it has its result and its progress
  (`main.py:140-147`), and a poll in between sees it so; a flush in between lets the rest
  of the report raise;
- an inject with the caller's own statement reports its rowcount, -1 or more
  than was asked for included;
- "Every test starts from a known baseline. The database is reset before each run"
  (`docs/04-control-plane.md:90`): a start without a dump resets nothing, as the same
  page shows; a generator that is not found keeps writing through the reset
  (`main.py:189-198`, 916-917), and a `pg_restore` that fails is logged and what it left
  is saved as the baseline (`main.py:929-930`). `StartsFromBaseline` says what remains:
  no restore between the baseline and the first snapshot. When two starts interleave
  that is lost too, so it is checked for one caller;
- a lost stop notification is swallowed, and `/tests/stop` answers 200 all the same;
- a late stop ends the run that is active when it is *handled*, which may be a
  later one;
- a sample measured before a start is filed under the run that started meanwhile;
- after a flush, a tab shows its operation as in progress until it is reloaded; two
  tabs, or a tab that lost the answer or was reloaded, do overlap scenarios;
- a cascade reports the rows it planned, not those that went in;
- a plan is in breadth-first order and not the topological one of
  `docs/04-control-plane.md:85`, `docs/03-introspection.md:11` and the comment "parents
  first" of `main.py:1149`: a table can precede a parent that is further away from the
  root (and is inserted before it), and all counts come from the root's count and the
  last key's ratio. `LevelOrder` states the order there is;
- `price_history` and `cart_items` have no `created_at`: once the former is over
  its limit, every pass fails there (`safety_monitor.py:72`) and the tables after it
  are never pruned again;
- a prune by an estimate that is too high takes a table below the target;
- an import that raises leaves its transaction open: half a set is listed with no
  queries, and committed by whatever commits next; a `queries.json` that could not be
  imported at startup is not tried again while any set exists;
- `set_intensity` creates the new container without the labels Docker Compose gives,
  removes the old one first, and tries nothing again when the creation fails; it can
  start load while a test restores its dump; two presets at once can lose `.env`'s
  other settings; and the control plane's image has no `docker compose`, which
  `/generators/start` calls; when `.env` cannot be written, `/config` reports the new
  level and no container has it, and a write that stops half-way has lost the file's
  other settings;
- `docs/03-introspection.md:34` gives chains of depth 2 to 4: the code builds up to
  five tables. Its "lookup: no FK children" (line 48) is the opposite of
  `introspect.py`, where a lookup table must have children and no keys, unless it has
  nothing at all. `op_n_plus_1` says it loads "down the chain" and looks every table up
  on the chain's root;
- an exists filter between two tables that refer to each other always fails, as the
  relationship of the name found first is the scalar one, and so does the sum of an
  array of integers, which `introspect.py:187` takes for a number: `ErrorsExplained`
  names both;
- a bulk insert into a table whose key nobody generates, and an update of one with a
  composite key, always fail; an operation that has nothing to work on is counted as
  done, although `docs/02-quickstart.md:174` has the counts as patterns that have run;
- `ORM_DURATION` ends the process, and `restart: unless-stopped` starts it again;
- `find_latest_sample` promises the most recent sample; when the last line of the
  newest file is half written, the complete one before it in that file is not looked
  at, and the verdict is FAIL for want of a sample. A ratio of zero, which the
  collector leaves out, is a FAIL too. `SKIP` cannot come out of `verify`;
- the poller's rates become negative after `pg_stat_reset` (`pg_poller.py:114`);
- `max_samples` is computed from the retention setting and never used: samples are
  kept for ever.

## 5. Proofs

Each proof module EXTENDS the component's module; ObserversProofs and GeneratorsProofs
extend two that share no variable, and no fact about the one is used for the other.
Nothing is assumed beyond the ASSUMEs on the constants; the theorems hold for any number
of callers, calls, workers, goroutines, variants, connections, tabs, tables, files and
samples, and for every set of faults but where a theorem says otherwise. Their ASSUMEs
state what a constant is (a number, a set of the known faults, a set that is not empty,
a value that is none of those it marks the absence of) except those of SchemaGraph:
there is a table, there are finitely many, and the keys of a schema are between its
tables; and of OrmLoad: the tables of a database are listed in some order, and its keys
are between them. The theorems called serial below have the hypothesis `OneCaller` (no
two callers), written in the theorem: with two, `StartsFromBaseline` fails, as section 4
says, and `StopSavesResults`, as the finding shows. `SerialDelta` also asks that no
notification is handled late (`NothingLate`: none times out and the control plane does
not die), and that none is lost (`NothingLost`: the dashboard does not die) or no call
restores a dump (`NothingRestored`). On instances with one caller, TLC finds each of
these needed: a timeout or a death of the control plane alone breaks `DeltaMeaningful`,
even without dumps, as a late stop ends a later run with an older snapshot; with a
dashboard that dies and a dump that is restored, a run whose stop was lost stays open
over the restore.

| module | theorem | establishes |
|---|---|---|
| TestRunsProofs | `Typing`, `OneRunning`, `EndedFrozen`, `Refinement`, `HistoryStays` | types, `RunningIsNewest`, a closed run is final, `ImplementsLedger`, `HistorySealed` |
| | `SerialBaseline`, `SerialDelta` | `StartsFromBaseline` for one caller; `DeltaMeaningful` for one, when no notification is late and none is lost before a restore |
| ReplayProofs | `Typing` | types |
| | `SerialSaves`, `SerialStoppable`, `SerialOwnCounts`, `SerialNoneLost` | for one caller `StopSavesResults`, `Stoppable`, `OwnCounts`, `NoneLost` |
| StorefrontProofs | `Typing`, `NothingOversold`, `NewShipmentsUnderWay`, `LedgerBalanced` | types, `NeverOversold`, `ShippedUnderWay`, `StockLedger` |
| QuerySetsProofs | `TypeCorrect`, `Durable`, `Traceable`, `LoadsOnce` | types, `AnswersDurable`, `ResultsTraceable`, `StartupLoadsOnce` |
| GeneratorsProofs | `TypeCorrect`, `ContainersKept`, `PresetsInForce` | types, `NothingLost`, `LevelApplied` |
| | `OrmTyped`, `ChainsComplete`, `FailuresExplained` | types of OrmLoad, `ChainsRight`, `ErrorsExplained` |
| SchemaGraphProofs | `TypeCorrect`, `PlansInOrder`, `NothingUnread`, `CacheRight`, `PlansComplete` | types, `LevelOrder`, `GraphOfBuilds`, `CacheTrue`, `PlanComplete` |
| JobsProofs | `TypeCorrect`, `ListedIsRun`, `ReportBounded`, `ReportsSealed`, `Serial` | types, `RunningIsRun`, `ReportInBounds`, `JobSealed`, `OneScenario` |
| ObserversProofs | `SampleNewest`, `FailCaused` | `NewestSample`, `FailHasCause` of TruthCheck |
| | `PruneTypes`, `LatestStay` | types of SafetyMonitor, `LatestKept` |

**TestRunsProofs.** `RunningIsNewest` is not inductive: a stop must close the *newest*
run, so that the ledger's open run is the last element. The invariant is
`TypeOK /\ RunningIsNewest /\ RunningHasNoAfter`; the last conjunct (an open
run has no second snapshot) is what lets a row be read as the ledger's open record.
A step that does not touch `runs` is a stutter of the ledger; serving a start is
`Open`, serving a stop is `Close`, with a lemma for the effect of each update of
the table (`StartEffect`, `StopEffect`). `EndedFrozen` follows from
the same lemmas, and `HistorySealed` because a sample is stored under the run that is
active at that moment, so that the samples of an ended run are the same set.

The serial theorems need to know what a handler waits for: each notification awaited is
that of a handler which waits, and the only one (`AwaitedFits`, `AwaitedOnce`, for any
callers). For the baseline: from its saving to the announcement nobody restores, so the
database is of the same restore and has only been written to (`BaselineCurrent`), and
what the notification carries agrees with it, served or not (`MessagesAgree`,
`RunsAgree`); a call names none before it has saved one (`BaselineLast`). For the delta,
nothing is restored while a run is open (`NoneOpen`) or nothing is restored at all
(`Dumpless`), so the first snapshot of the open run is of the present restore and no
later than now (`OpenNotAfter`), and neither is the snapshot a stop carries
(`MessagesNotAfter`). A run that is superseded because the dashboard did not hear of its
end has no second snapshot to compare.

**ReplayProofs.** `IInv` adds to the types that every generation, list and worker
referred to exists (`ListsExist`, `WorkersRefer`, `StartsRefer`, `CountsRefer`). For one
caller, `SInv` says which flag values go with which
stage (`FlagFollowsStage`), that the current statistics are unsaved while the
engine runs (`CurrentUnsaved`), and that a stop works on the statistics that were
current when it was called (`StopKeepsStats`): then a stop saves what it
stopped, once, and no live worker is left with the flag down and the event clear. That
a replay counts its own workers only, and that none is lost to a replay of another set,
needs more, as long as no join has given up: what is alive is in the last list, ahead of
the join, or about to be entered (`AliveListed`), belongs to the current statistics
(`AliveCurrent`), and there is nothing alive between two replays (`NoneLeft`).

**StorefrontProofs.** `NeverOversold` needs `Covered`: a goroutine past its check holds
the row's lock, and the row still has the units it saw. `ShippedUnderWay`
needs to know what an update under way has picked (`Picked`): an update, however
stale, writes only states of an order under way, and a shipment is made of such an
order (`Shipped`). `StockLedger` is inductive together with these. Its sums are over a table
that grows and whose rows are updated, and rest on lemmas about the sum: what it is
(`UnitsDef`), that tables whose rows take the same have the same (`UnitsAgree`), and
that a new row adds its units (`UnitsAdded`).

**QuerySetsProofs.** What is committed is a part of what is seen (`DiskInView`), so a
commit by whomever loses nothing that was answered, and a restart loses only what was
not. Results refer to what is seen or was deleted because the replay under way does
(`PlayingTraceable`), and deleted ids are not given again (`DeletedUnseen`). The startup
is alone until requests are served (`BootAlone`), and knows from what it sees which kind
of file has been loaded (`BootLoads`).

**GeneratorsProofs.** `NothingLost` needs only which request comes to which place
(`PlacesOK`): a handler never waits at a place of a removed container without the
services it still has to make. `LevelApplied` speaks of the moment a preset ends, so
`PresetInv` says what one that runs alone has done at each of its places (`Progress`)
and what is left when it has ended (`InForce`).

**SchemaGraphProofs.** Four invariants, one for each property. *Order*: the queue is the
end of the plan, and no table of the plan is more than a level below the one last taken
off (`Queued`, `Walking`). *Keys*: of the build that began last nothing is missing but
what some build has still to add (`BuildsOK`). *Cache*: what a load has read against the
schema as it is now, unless a migration has torn it (`ReadOK`). *Completeness*: while
nobody changes the graph, a plan is linked by keys (`Linked`), and all successors of the
tables taken off the queue are in it, a level below them at most (`Explored`); of the
table that is walked, those not left to visit (`Halfway`). From `Explored` for the whole
plan it follows by induction on n that a table within n keys of the root is in the plan
at depth n or above, which, as no table is there twice, makes the depths distances.

**JobsProofs.** A row says "running" exactly as long as its function is at work, and is
reported exactly when it has ended (`ListedRight`), from which `JobSealed` and
`RunningIsRun` follow; the counts of a function (`Counted`) bound its report; the one
scenario that may be at work for a tab that is not astray is the one the tab knows, as
the one it has posted or the one it polls (`TabsKnow`).

**GeneratorsProofs, the ORM generator.** `ChainsRight` says that the chains computed are
the simple paths along the keys, each once, the longest first. The walk is a recursive
function on paths, defined since a path only grows and stops at `MaxDepth` (`WalkDef`);
what it collects below a path are the paths that extend it (`WalkRight`, by induction on
what is left to the limit), although the code visits a table's children as often as it
has keys. That putting sequences one after the other, and dropping duplicates before a
stable sort, neither loses nor invents anything is proved of any sequences (`FlattenBy`,
`FlattenRange`, `UniqueSortedRight`). `ErrorsExplained` needs that what was reflected is
there or was dropped meanwhile, that an operation names only what was reflected and
has a class (`Usable`), and that it asks what is not to be had only of a pair or of an
array (`Excused`), in its context and in the worker that runs it (`Sound`): the lists of
the introspection are filtered again by `get_model`, so an operation never asks the
registry for a class it has not.

**ObserversProofs.** *Truth service*: files are in the order of time and every complete
or half written line agrees with what the database was (`FilesOK`); a file that has
still to be read has a sample as new as the newest, unless that is excused (`Ahead`);
what has been found agrees with the snapshot if of its version (`FoundOK`), so it passes
every tolerance. *Safety monitor*: what is picked to be deleted are the oldest rows of
the table as it is by then, by the pass (`MonitorPicked`) and by each request
(`RequestsPicked`): rows that are inserted later are newer, and rows that somebody else
deletes meanwhile only leave the picked ones the oldest still. So what a delete leaves
of a table is again its latest rows.

**Induction over data.** The induction theorems of the library take an operator, which
the provers cannot instantiate. Where an induction over numbers is needed, it is on a
*set* of numbers (`SetInduction`, from the well-foundedness of <): recursive functions
exist (`PlannedDef`, `UnitsDef`, `BallDef`, `FlattenBy`, `WalkDef`) and their values are
bounded, equal or characterised by the same lemma.

**Left to TLC.** Liveness, and it alone: `CallsReturn`, `DrainAfterStop`, `TasksEnd`,
`RoundsEnd`, `PassEnds`, `LimitRestored`, `ComesBack`, `MainEnds`, `ComesToWork`. It
rests on fairness, and so on ENABLED, which is beyond these provers. Every other
property of a passing run is stated by a theorem.

## 6. Not modelled

- The analyzer, the database import, the analytics queries, the dashboard page,
  the pgbench runner, scripts and CI keep no concurrent state; each is one
  sequential pass.
- Of the truth service the stub panels and the report's layout; of the ORM generator
  the statistics, rows and statement texts; of the dashboard and the poller
  what only reads or formats.
- Carts, sessions, reviews, logs, prices and the settling of payments touch none
  of the modelled tables. Two hazards live there: an expired session a cart
  refers to makes the delete of its whole batch fail (`main.go:757`), and a shutdown
  during the index chaos leaves the index behind (`main.go:1069`).
- The size of the thread pool: the runs start fewer jobs than it has threads, while
  endless updates could take all forty (`main.py:458`).
- Hazards no property covers: two starts that overlap (`main.py:985`); the death of the
  control plane between a container's removal and its creation (`main.py:1607`); reports named by the second overwrite each other
  (`main.py:690`); a cascade's total is what was planned (`main.py:1170`); results are
  filed under a run that may have ended meanwhile (`main.py:1299`); the schema hash
  misses keys (`schema_graph.py:88`); counts are rounded down from one ratio
  (`schema_graph.py:388`).
- Columns, ratios and row counts of the schema graph; the SQL an inject builds.

## 7. Plan

Done, in this order: TestRuns with RunLedger and its proofs; Replay with proofs;
Jobs; SchemaGraph; Storefront with proofs; SafetyMonitor; QuerySets; Generators;
OrmLoad; TruthCheck; then the proofs of QuerySets, Generators, SchemaGraph, Jobs and
TruthCheck, the serial properties of TestRuns and Replay, the ledger of Storefront,
what the safety monitor keeps, the chains and failures of the ORM generator, and the weaker
hypotheses of `SerialDelta`.

Then, against the code read once more: the seed of Storefront, the three passes of
OrmLoad's reflection, templates, empty batches and reports in two steps in Jobs, the
containers and restores that fail in silence in TestRuns, and the start of a worker in
two steps in Replay.

Left:

1. **Replay and TestRuns together**: the run under which results are filed
   (`main.py:1299`).
2. **Concurrent callers**: what remains true of the two snapshots of a run and of its
   baseline when calls overlap, as both properties are false then.
3. **Generators**: the death of the control plane between two Docker calls.
