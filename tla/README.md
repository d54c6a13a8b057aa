# A verification project for the Moskollektor backend

This directory holds TLA+ models of the backend under `src/` (FastAPI,
SQLAlchemy, PostgreSQL), the TLC configurations that check them on small
instances, and TLAPS proofs of what matters most for every size. The reference
is the code; where a document or comment disagrees with it, the model follows
the code and the disagreement is a finding.

1. [The system](#1-the-system): inventory and hazards
2. [The modules](#2-the-modules): what is modelled, and how it maps to the code
3. [The runs](#3-the-runs): what each shows, its bounds
4. [Fairness](#4-fairness)
5. [The proofs](#5-the-proofs)
6. [Findings](#6-findings)
7. [What is not modelled, and the plan](#7-what-is-not-modelled-and-the-plan)

## 1. The system

One process, an asyncio event loop, one PostgreSQL database at READ COMMITTED.
Every request handler opens a session (a transaction) of its own; handlers
interleave at every `await`. One background task, the replay loop, writes beside
them. What the parts know of each other they learn through the tables:

```
 event log CSV -> ETL ----\
 replay loop --------------> sensor_readings --sync_events--> events
 scenario activations ----/                    (GET /events)    |
                                                                | sync_risks (start) <-> ML /predict
                                                                v
 dispatchers --acknowledge/reject/defer--> risks <-- sync_object_risks (start) <-> ML /risk_map
                   |                         |
             risk_decisions --> report     work_orders  (POST; statuses move in GET)
                   |
 clients <--lists, cards, series-- all of these tables    (scope and permissions of the session)
 audit_log <-- every mutating request, after its answer
```

A start runs the migrations, the catalogue seeds, the ETL, the demo users, the
synthetic providers and the synchronisations in this order, each in transactions
of its own, before the first request. `ml/` is a second program beside the
backend: it trains on an export of the same journal of readings and is asked over
HTTP.

| Component | State | Operations | What makes it correct |
|---|---|---|---|
| Event materialisation (`event_sync`) | `events`, the mark `event_sync_state` | `sync_events` at the top of each GET /events and at the start | one event per notable reading, none skipped; mark and events agree; answers are fresh; never stuck |
| SMVU replay (`replay_engine`) | `replay_state`, its copies in `sensor_readings` | a tick every 5 s; start, cancellation | no slice lost or doubled, the cursor stays in the window, the virtual clock loses no time |
| Scenarios (`fixture_scenarios`) | readings | activation: one transaction, rolled back if a channel is missing | no trace of a failed activation |
| Risk decisions (`risk_decision`) | `risks`, `risk_decisions` | acknowledge, reject, defer with `expected_version` | no decision made on an outdated card; status follows the journal |
| Report (`risk_report`) | none | reads risks, then decisions | a decided risk stands there with its decision |
| Work orders (`work_order_*`) | `work_orders` | POST numbers and inserts; GET moves statuses to the age of the order and lists | numbers of a year run without gap or repetition; statuses only advance, and do advance |
| Sensor forecasts (`risk_sync`) | `risks`, links in `events`, cursor `risk_sync_state` | at each start, batch by batch, one question per sensor | risks and links agree; every event is evaluated once; the start ends |
| Facility forecasts (`object_risk_sync`) | `risks` | at each start, one ranking per target, one COMMIT | no second open risk; no answer of the ML service ends the start |
| Migrations (`alembic/`) | the schema and its revision | upgrade at each boot, downgrade by an operator | up and down again is the schema the models read; the rows a way back keeps are what the next start has to do with: it fills the rest, or ends where a key is taken |
| Start (`main.lifespan`) | catalogues, `sensor_readings`, `etl_ingested_sources`, demo users, `synthetic_provider_runs` and their rows | each seed looks for what an earlier start left and commits; the ETL commits batches, then a marker; a key that is taken ends the start | what serves is complete; a start that was interrupted can be repeated, one that has served changes nothing |
| Source health (`source_health`) | overrides | GET, degrade, clear | a source that stopped is seen whatever overrides raced; a request that ran alone is in effect |
| Sign-in, lockout, sessions (`auth_service`, `login_throttle`, `deps/auth`) | users, sessions, failures | login, logout, bearer check, permissions | failures in a window are bounded, the announced wait is honest; a revoked or expired session is refused, over restarts and migrations too |
| Audit (`audit_recorder`) | journal | one entry per mutating request | an entry names who acted, never somebody else |
| Lists, cards, scope (`*_query`, `scope`) | none | pages after a cursor; a card | a walk returns every row that stays exactly once; lists and cards agree on who may see what |
| Series (`sensor_series_query`) | none | points, buckets, intervals of a channel | nothing lost, nothing made up |
| ML data (`ml/outputs`) | the exported journal | episodes, examples, labels; features of a moment | what is served is what was trained on; a label says what is recorded, no more |

Reference data, hierarchy and layout are read only and never change after the
seeds; risk levels are tables of thresholds; the proxy is configuration.

**Hard behaviours.** Ids are given out at the INSERT and become visible at the
COMMIT; two requests synchronise the same rows; `now` is read before the rows it
is compared with; the optimistic lock is checked in memory; a stop can fall
between any two statements; the wall clock can be set back; a tick can be late
by more than the whole window; the ML service can fail or answer nonsense; a start
can stop between any two of its COMMITs, on a database another release has
served or a downgrade has emptied in part; pages are read while rows arrive and change; the same feature is computed
by two programs in two languages. The
list with lines, and the property that watches each, is `hazards` in
`PROJECT.json`.

## 2. The modules

Each row names the module, the code and the correspondence that matters. `map`
in `PROJECT.json` gives the lines of every definition.

| Module | Code | State and steps |
|---|---|---|
| `EventJournal` | the contract of GET /events | abstract: notable readings arrive at the end of a log, the journal publishes the next stretch of it |
| `EventSync` | `event_sync`, the writers `replay_engine.tick_once` and `fixture_scenarios.activate_scenario` | readings are ids; per writer the ids flushed in its open transaction; per request the statement it is at, the mark its ORM object holds, the rows it selected. `SyncStart`/`SyncCreate`/`SyncSelect`/`SyncWrite`/`Answer` are the statements; the failures are the two `IntegrityError`s |
| `Replay` | `replay_engine` and its task in `main.lifespan` | wall clock, virtual cursor, copies per historical reading, the open tick. `TickRead` is everything up to the rows, `TickCommit` the COMMIT; between them the process may stop and time may pass |
| `RiskDecision` | `risk_decision`, `api/risks`, `risk_report` | one risk: its version and status, the journal, each dispatcher's card and request. `Accept` is the check on the loaded row, `Commit` the UPDATE and INSERT, `Refresh` the answer, `Abort` a request that dies on either side of its COMMIT |
| `WorkOrders` | `work_order_numbering`, `_query`, `_lifecycle`, `api/work_orders` | orders with number, creation time and status; per POST and GET the `now` it has read and the rows it has loaded |
| `Forecasts` | `risk_sync`, `object_risk_sync`, `main.lifespan` | committed events, cursor and risks; the session of a start with its uncommitted risks and links; what the ML service answers is a choice |
| `SourceHealth` | `source_health`, `api/system` | extends `Replay` by the override row and the requests that read and write it; a write is the UPDATE of the attributes that differ from what was read, or an INSERT that may break the key |
| `Migrations` | `alembic/versions`, `models` | a revision is the tables and columns it adds or drops; `Upgrade`, `Downgrade(k)`; `Metadata` is what the models declare |
| `Startup` | the seeds, `event_etl`, the providers, `main.lifespan`, `Dockerfile` | extends `Migrations`: the phase of `lifespan`, the release deployed, what is in the tables; one action per COMMIT, one per exception, `Stop` between any two |
| `Access` | `api/auth`, `auth_service`, `login_throttle`, `deps/auth`, `audit_recorder` | extends `Startup`: clock, sessions, failures (a set of rows, as the table is), journal and the requests in flight, each a sequence of its transactions |
| `Service` | `main.app` | composes start, requests, stops, deployments and migrations; a way back takes sessions, failures and journal along with their tables |
| `Lists` | the `*_query` modules and their routers, `scope` | a table, a client with its cursor, rows that arrive and change; a page is an operator of the table |
| `Episodes` | `ml-stage2/episodes.py`, `ml-dataset/episodes.sql` | of each channel a sequence of readings in the order of their times, which grows row by row; both programs that divide it into episodes, as operators |
| `Series` | `sensor_series_query`, `api/sensor_series` | extends `Episodes`: the series of a channel as an operator of the journal |
| `Features` | `feature_store.py`, `object_predictor.py`, `examples_v2.sql`, `class_labels.py` and their like | extends `Episodes`: the features served and the examples and labels trained on, as operators of the journal |
| `Reads` | | composes `Lists`, `Series` and `Features`: a behaviour is about a table or about the journal |
| `MC*` | | instances for TLC |
| `EventSyncProofs`, `ReplayProofs`, `RiskDecisionProofs`, `WorkOrdersProofs`, `ForecastsProofs`, `ServiceProofs`, `ListsProofs` | | theorems and proofs about the module of that name; `ReplayProofs` covers `SourceHealth` too |
| `JournalProofs` | | theorems and proofs about `Reads` where it is about the journal: `Series`, `Episodes`, `Features` |

How they fit: `Replay` is the writer that `EventSync` calls `Replay`, seen from inside
(its `TickCommit` is that writer's INSERTs and COMMIT); `EventSync` implements
`EventJournal`; the events it writes are the ones that arrive in `Forecasts`
(`EventArrives`), whose `Decide` is the only thing it needs to know of
`RiskDecision`. `SourceHealth` runs `Replay`'s own actions and watches them.
`Startup` ends where `Forecasts` (its synchronisations) and `Replay` (its task)
begin: they start from the phase it calls serving. The readings of `Episodes` are
those `Startup` ingests and `Replay` copies, seen by the times that matter to their
readers.

**Atomicity.** A statement is a step, and so is a COMMIT. Where the code awaits
nothing between two effects, or the database serialises them, they are one step;
each module's header says which. In `EventSync` the INSERT of a batch and its
COMMIT are one step, because an INSERT of a key that another transaction has
inserted waits for that transaction. In `Startup` and `Access` a transaction is one
step: a start runs alone, and the transactions of sign-in read and write in one
statement each, or are followed by nothing that depends on what was read (the
lockout's check and the failure it leads to are two steps). In `Lists` a page is
one step although the code counts and reads in two statements: the total is
left out. The order of a list is defined by counting the rows in front of each
(`InOrder`), which the provers understand and the library's sort hides from them.

**Abstractions.** Readings, events and orders are positions or ids; a reading is
notable or not; times are small numbers; texts, levels, scores, types and
filters are left out where no property tells them apart. An operator's override
forces online or unavailable, the two statuses that hide the truth. In `Episodes`
and its users the flag is_alarm follows from the raw value, is_anomaly is left out,
times are ticks of which a day has two, and one boundary divides examples for
validation from those for the test. Of the filters of a list, scope and status are
modelled: the others are further conditions of the same WHERE.

**Assumptions on the environment.** The backend runs as one process with one
replay task (`docker-compose.yml` starts one). The window of historical readings
is longer than an instant. A reading of a channel the catalogue lacks does not
exist: the ETL creates an orphan channel for it. `extract(year, created_at)` and
`now.year` agree: the database runs in UTC.

## 3. The runs

| Run | Instance | What it shows |
|---|---|---|
| `event_sync_replay` | one writer, 2 requests, 3 readings, batches of 2, a crash | none skipped, mark and events agree, answers fresh, every reading journaled; the module implements `EventJournal` with its liveness |
| `event_sync_mixed` | replay and a scenario, 2 requests, one batch | what survives two writers: no event of a rolled back reading, never stuck |
| `event_sync_lost` | the same without a crash | a violation: a reading is skipped for good |
| `replay` | a window of 4, readings at both ends and twice inside, speed 2, time 0..4, one setback; two operators with two override requests, fresh to age 0, delayed to age 1, overrides of one tick | the stream stays even, the clock loses no time; a dead loop is seen, a lone request has the last word |
| `risk_decision` | 3 dispatchers, 3 decisions, the report | the lock, journal and report are right while accepted requests do not overlap |
| `risk_decision_race` | 2 dispatchers, 2 decisions | a violation: both are accepted on one version |
| `work_orders` | 2 POSTs, 2 GETs, 2 orders, 3 statuses, a year of 2 ticks | numbers, statuses and completion |
| `work_orders_regress` | 1 POST, 2 GETs, 1 order | a violation: a completed order goes back |
| `forecasts` | 2 sensors (one without a channel), 1 facility, 2 targets, answers of up to 2 rows of every kind, 3 events, batches of 2, 2 starts | risks and links, cursor, open risks, the end of a start |
| `forecasts_fatal` | the same | a violation: an answer ends the start |
| `service` | 5 releases, 2 facilities in 2 districts, 3 channels, a log of 3 rows in batches of 2, two requests at a time, lockout after 2 failures of a name or 3 of the address, all 18 migrations | what serves is complete, a repeated start changes nothing, sessions, lockout and journal keep their meaning over restarts and migrations |
| `reads` | 3 callers, 6 tables of 3 rows, one arrival and one change, pages of 1 and 2; journals of up to 4 readings of one channel or 3 of each length of two, over 12 ticks with a gap of the log | walks, cards, series, features, examples and labels |

Why the bounds are enough:

- *Two* requests, dispatchers or GETs are what every race here needs: each
  hazard is between one that has read and one that writes meanwhile. A third
  dispatcher is there to be the bystander with an outdated card.
- *Three* readings with batches of two give a full batch, a short one, an empty
  one and a sync that has a batch behind it and one ahead; three events with
  batches of two do the same for `Forecasts`.
- The replay window of four is passed twice with speed 2; ticks end at, before and
  behind the end of the window, and the time bound leaves room for an outage of
  more than a window and for an override to begin and end on a dead loop. The
  proofs cover the engine for every other window and speed.
- A year of two ticks, thresholds at 0, 1 and 2: requests straddle both
  thresholds and the turn of the year, and orders of two years exist.
- A crash or stop may fall between any two steps; one is enough since the state
  it leaves is one the next steps start from. `service` has budgets instead: many
  starts with deployments and a downgrade but no request; requests over one
  restart with a migration or a deployment between; more requests of one process.
- The five releases are the cases the seeds distinguish: a first catalogue, one
  that adds a channel and a permission (and cannot parse a row of the log), one
  whose facilities and districts grew (it never gets past the first seed once the
  first release has served), one that knows another facility and district, so that
  it is seeded beside the first, and not the facility of one of its channels, and one
  with that facility in the first district, which is not seeded beside the first.
- A downgrade may end at any revision. Below the first no row is left; to the auth
  schema it leaves the districts, to the hierarchy the facilities and the channels'
  nodes, and the next start fails at the first or the second seed; to the ODS journal
  it leaves the marks of two providers whose tables are gone.
- Three rows and pages of one and two give a full page with and without a
  successor, a short page and an empty one, and put the arrival and the change
  before, at and behind the cursor. The callers are one without a scope row, one
  with a facility assigned and one by district, and one with none.
- Four readings of three raw values are an episode with a beginning, an
  interruption and a successor; with two ticks to a day, a week of two days and a
  month of three, 12 ticks hold a month of history, an example, the day after it and
  readings on each of their boundaries.

Deadlock is checked in every run but those of `Forecasts` and `Service`, where the
process may have used up its starts and be down for good, and `Reads`, where a
walk or a journal may be at its end.

Each property of a passing run has a mutant in `PROJECT.json`: a change of the
code (a dropped guard, `>=` for `>`, the wrong row of a batch, a lost `max`, a
COMMIT time for the tick's own, the lookahead row's id for a cursor) under which TLC finds it violated. The mutated
forms stand beside the definitions they replace. `StartupTypeOK`, `AccessTypeOK` and
`HealthTypeOK` state the types of their modules; the runs leave them out, they
hold on the same instances.

## 4. Fairness

- `EventSync`: weak fairness of the requests. Dashboards poll GET /events, and a
  request that has begun goes on; a statement that waits for another transaction
  is not enabled while it waits. Nothing is assumed of the writers.
- `WorkOrders`: weak fairness of the clock and of the GETs, which poll as well.
  POSTs are free to stop anywhere.
- `Forecasts`: weak fairness of a start's own steps: calls of the ML service have
  a timeout. Nothing is assumed of starts, stops, events or dispatchers.
- `Replay`, `SourceHealth`, `RiskDecision`, `Service` and `Reads` have safety
  properties only. `DeadIsSeen` is "a dead loop is eventually seen" made precise:
  it says from when on. In `Replay` the time
  bound would make any statement about "eventually" a statement about the bound.

## 5. The proofs

All of them hold for every value of the constants that satisfies the named
`ASSUME`s of the modules, which TLC evaluates on the instances.

**EventSyncProofs.** `TypeCorrect` and `EventsCommitted` (no event without a
committed notable reading) need no restriction on the writers. The others assume
`Activations = {}`, one writer, and are false without it: that is the finding of
`event_sync_lost`. The invariant behind them says that (a) ids pending in the
writer's transaction lie above every committed one, so committed notable readings
appear in the order of ids; (b) `events` are exactly the committed notable
readings up to the mark; (c) a request that is about to write holds the first
rows above the mark it saw, and that mark is not above the real one, so that
either its batch is the next stretch of the log or it collides with an event. The
third part is what makes the invariant inductive: it turns the primary key into
the lock the code relies on. From it follow `NoneSkipped`, `EventsBelowMark`,
`AnswerIsFresh`, `MarkOnlyAdvances` and that every step of `EventSync` is a step
or a stutter of `EventJournal` (`ImplementsJournalSafety`).

**ReplayProofs.** `TypeCorrect` shows that the cursor never leaves the window.
`StreamIsEven` needs one more invariant, `TickIsOpen`: what an open tick is about
to commit is still computed from the stored position, because nothing else writes
it. `ClockLosesNoTime` strengthens `VirtualClockKept` with what holds before the
first tick; `SmoothTick` is the arithmetic of one tick that passes the end of the
window at most once. The second half is about `SourceHealth`, which this module
extends. `HealthImplementsReplay` makes every theorem of the first half one about
`SourceHealth` as well. `LastWordCounts`: a request that is alone has read the row
as it is. `DeadEngineIsSeen`: while the clock has not been set back, no override,
committed or in a request's hand, ends later than the last degrade request's clock
reading plus its duration (`AgeInv`), so that lost updates among requests cannot
prolong one.

**RiskDecisionProofs.** `NoLostUpdateWhenSequential`, `StaleCardRefused`,
`StatusFollowsJournal` and `ReportConsistent`, all under "no two accepted requests
were in progress at once", which the history variable `overlapped` records. The
invariant: while that holds, the version is the length of the journal plus one, a
request in progress holds the current version and status, a card's version is
the number of decisions it was drawn after plus one, and the clock readings in the journal
grow.

**WorkOrdersProofs.** `NumbersAreContiguous` needs what a POST has in hand: a number
it is about to insert is at most one above those of its year, so that it is the
next one or breaks the unique key (`Numbered`). `StatusIsNeverAhead` and
`StatusOnlyAdvances` share `StatusInv`: no GET has read a clock ahead of the real
one; and while no GET has written over a newer one (`raced`), every order is at
most as far as each GET on its way is going to put it (`NoneBehind`).

**ForecastsProofs.** The types are preserved part by part (`phase`, the session, the
rows in hand), each action by the parts it can disturb. Three invariants on top of
the types. `BatchInv` (what is in
hand is the first batch that is due, and above the cursor nothing is linked) gives
`NothingIsLeftBehind` and `EventsEvaluatedOnce`. `LinkInv` is about the
session of a start, which a stop throws away: its links point into the risks it is
going to append, to one of the event's own sensor, and never to an event of a group
that is still to be asked about; a COMMIT then makes `RisksAlwaysMatchEvents` true
again. `OpenInv` says that committed and staged risks together hold no two open
ones of a facility and a model that outlast the time the step has read; it needs no
more, since a start runs alone and dispatchers only close risks.

**ServiceProofs** is about the composition, from an empty database on. `StartInv`
says what each phase of a start finds done (`Progress`), what a release that has
served leaves (`SeededDone`), which rows of the log have been passed and how often
they can have been copied (`LogInv`), that a provider's mark and rows agree
(`MarksInv`), that a placed channel has its facility and its node whatever tables a
way back dropped (`TreeInv`), and that the schema is what the revisions so far have
added (`SchemaInv`); it rests on facts about the chain of the 18 migrations: each drops
what it added, nothing is added twice, and together they make what the models
declare. `ServesCompleteData` and `StartsRepeat` follow. `RequestInv` adds the
sessions and requests: a request in flight implies that the service serves, so that
no migration comes between its steps; a migration that takes the expiry of sessions
gives back the one they were issued with; the journal never outlives the sessions
it speaks of. From it follow `SessionsAreHonoured` and `ActorsAreTrue`.
`LockoutIsSound` is about counting: a sign-in that was let through and not yet
decided is counted like a failure, and failures and such sign-ins together stay
below the limit plus the number of clients (`RoomLeft`); a promise made by a 429 is
a moment by which fewer failures than the limit are left in the window
(`PromiseHolds`), which only a new failure could change. `LastTime` and
`FirstTime` (a finite set of times has a maximum and a minimum) carry
`UnlockInTime`, that the limit-th newest failure decides.

**ListsProofs.** Rows have different ids and places in the heap, so the order of each
of the six lists is a strict total one and `InOrder` sorts (`InOrderSorts`).
`CardsAlwaysMatchLists` rests on it, and on no user being assigned to what has no
facility. `WalksAreComplete` takes both ways of paging apart: a page cut out of the
whole list and a page read from the cursor on show the same thing, the first rows
of what lies behind the cursor's row (`SliceShows`, `KeysetShows`, `AnswerShows`).
The invariant `WalkInv`: of the rows that matched at the beginning and stay, the
client has seen each that is not behind its cursor's row exactly once, the others
never, and in order; what arrives or changes elsewhere moves no such row from one
side of the cursor to the other. It is not inductive once the cursor's own row has
changed (`lost`): a list of risks then goes on somewhere else, and a list filtered
by status ends with an empty page. That is why `WalkComplete` excludes it.

**JournalProofs** is about journals of any length, over any channels, with any lengths
of day, week and month. The one invariant over steps is small, `JournalInv`: of every
channel the readings are in the order of their times. All the rest is about what the
operators make of such a journal, and needs induction. The provers have no induction
over operators, but a set of numbers has a least element (`LeastExists`, from the
well-foundedness of `<`), and that gives induction as a fact about a set (`UpTo`), a
maximum to every bounded set (`MaxIs`), and to a fold over a sequence the function
of its steps (`FoldExists`, `FoldSteps`). On these rest:

- *`SeriesAreFaithful`.* The fold that loads a range keeps the order of times
  (`LoadIs`). A moment between neighbours too far apart is one between readings too
  far apart (`MissingIs`): the last reading before it and the first one after it are
  neighbours. Bucket starts are multiples of the granularity, so one bucket holds a
  time (`BucketIs`), the buckets are disjoint, and their sizes add up
  (`SumOfDisjoint`). `Merged` is the invariant of the fold that merges neighbours.
- *`LabelsAreTrue`.* That the iterator over the rows and the query with a window
  function find the same episodes (`EpisodesAlwaysAgree`) is an invariant of the
  iterator after each row (`IterInv`): while the newest episode goes on, what is closed
  are the table's others so far and what is open is the newest one with its last
  alarm and its number of rows; otherwise all are closed. Each row then goes on with that one or begins one
  (`EpisodeGoesOn`, `EpisodeBegins`). A label follows from the episodes that begin
  in the day after the example: `NoUncertainFirst` excludes one whose beginning is
  not known, and `NextAlarmStarts` says that the first alarm after a quiet day is a
  beginning.
- *`ExamplesAreServed`.* What is counted from windows of times when serving is counted
  from days when training (`TrainedAsServed`, `WindowShowsStarts`): midnights are a
  grid (`GridIs`) and an example's moment is one of them. `HistoriesAgree` compares
  the two ways to establish how far back a channel's history goes.

The proof of `ExamplesAreServed` corrected the property: the service has one more
reason to refuse than the data set has to exclude, a journal that has ended
(`stale_journal`), and it comes first when the journal ends shortly before the day.
The statement now asks for the same reason only while the journal goes on, and the
run has `Hour = 0` so that both cases occur in its few ticks. `Single` and `Exclusion`
are chains of IF, like the chains of WHEN they translate: the guards overlap, and the
first one that holds decides.

**Assumptions.** Beside types of constants: settings that are durations or limits
are at least 1; `Backfill = Ttl`, as in the migration and the settings; every
release gives its manager some permission; channels, clients and the log are
finite, and the log names known channels; a week is longer than a day and a month
than a week, and an episode's gap shorter than a day; the gaps of the log are finitely
many and disjoint, because `log_gaps.sql` makes them from neighbouring records. Nothing is assumed
of interleavings, stops, answers or the clock beyond what the actions say; a
theorem that needs no setback, no overlap or no race says so in its formula.

**Only model-checked:** liveness and fairness (`EveryReadingJournaled`,
`NeverStuck`, `EveryOrderCompletes`, `StartEnds`, the liveness part of
`ImplementsJournal`), which is out of the prover's reach. Every invariant and every
action property of a passing run is stated by a theorem.

## 6. Findings

1. **A reading can be skipped for good** (`event_sync_lost`). The high-water mark
   is an id, ids are ordered by INSERT, rows become visible by COMMIT. A sync
   between the COMMITs of the replay loop and of an activation moves the mark past
   a reading it cannot see yet. Against `docs/DATA_PROCESSING.md:22`.
2. **Two dispatchers can both decide on one version** (`risk_decision_race`). The
   version is compared in memory and the UPDATE names the id alone. Against the
   docstring of `apply_decision`.
3. **A completed order can go back** (`work_orders_regress`), until the next GET
   (`EveryOrderCompletes` says it is put right). Against the comment in
   `work_order_lifecycle.py:61-64`.
4. **An answer of /risk_map can keep the backend from starting** (`forecasts_fatal`):
   a suspect channel without `target_id`. Against `README.md:183`.
5. **The event log can be ingested twice**, in part: batches are committed before
   the marker. Against the docstring at `event_etl.py:38` ("idempotently"). No run
   of its own: `DataComplete` states what is left, as many extra copies as
   ingestions were cut off.
6. **A catalogue can keep the backend from starting**. The seed looks for facilities
   and inserts districts too: a catalogue that shares a district with what is there
   fails on that key, and so does one that grew, and the same file after a downgrade
   that kept the districts (`SeedFacilitiesFail`). Against the docstring at
   `facility_seed.py:29-33`. The channels' seed does the same with their nodes after a
   downgrade that kept those (`SeedChannelsFail`), against
   `sensor_channel_seed.py:31-33`. Nothing but a repair by hand gets such a database to
   serve that file again. No run of its own: `service` fires both steps, and
   `DataComplete` says that none of these starts serves.
7. **/predict can be asked twice about a channel**, when its events lie in two
   batches. Against `README.md:155`. No run: it follows from `SelectBatch`.
8. **Two providers can be lost in a downgrade.** The marks of the registry and the
   backlog live in a table an earlier revision created: a way back to `d1aa14e94b6b`
   drops their rows and keeps their marks, and neither is ever generated again.
   Against the docstring at `equipment_registry_provider.py:39` ("idempotently"). No
   run of its own: `forgotten` is the exception `DataComplete` makes for it.

## 7. What is not modelled, and the plan

Not modelled, and why:

- **Risk levels**, **reference data**: tables of thresholds and texts; a property
  would only repeat them.
- **Hierarchy and layout**: queries over rows that never change after the seeds.
- **Report formats**, **model quality**: CSV and XLSX layout, and a passthrough.
- **Scenario contents, generated demo data**: which values a scenario or a provider
  draws; how many rows there are, and when, is modelled.
- **The ML models**: fitting, metrics, the pump study, the HTTP server. What they are
  given and what they promise about it is in `Features`.
- Hashing, token and id generation, proxy and compose files.

Nothing the runs check is left to prove but liveness. What a next step would add is a
common refinement: one reading of the replay loop is an id in `EventSync` and a number
of copies in `Replay`, and a specification of both would let the theorems of the one
speak of the other.
