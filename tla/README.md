# TLA+ models and proofs for the LNG fleet performance system

The repository holds three programs that share a subject and no code: the *fleet
system* (`lng-fleet-system/`: a Rust gateway on board, a Go API server ashore, a
web frontend, a machine-learning pipeline), the *fleet performance application*
(`lng_fleet_performance/`: FastAPI over SQLite or PostgreSQL) and a *data
generator* (`lng-data-generator/`). This directory models their control: who may
do what when, what is kept where, and what a failure leaves behind.

Source lines below are relative to `lng-fleet-system/edge/src/`,
`lng_fleet_performance/` (Python files of the application) or
`lng-data-generator/` (Python files of the generator); longer paths are given
from the root of the repository.

## 1. Inventory

### 1.1 Edge gateway (Rust, tokio)

One process, nine tasks, bounded channels between them:

    Modbus engine --(256)--\
    Modbus cargo  --(256)---+--> analytics --agg(64), anomaly(128)--> transmission
    Modbus aux    --(256)---+               --eca(64), cii(64)----->   manager
    OPC UA nav    --(256)--/                                             |
                                                        MQTT request channel (100)
                                                                         |
                                                          event loop --> satellite

| part | state | operations | hard behaviour |
|---|---|---|---|
| pollers `modbus.rs`, `opcua.rs` | connection, interval | connect with retry, read, send, close, stop | blocked in a send, or awaiting a device without a timeout, during shutdown |
| analytics `analytics.rs` | window accumulator, statistics buffers, odometer, fuel type, ECA tracker | a branch per sensor, anomaly check, window drain | biased `select!`, blocking sends, wall clock |
| ECA tracker `eca.rs` | last zone | `check_transition` | overlapping boxes, zone-to-zone change |
| transmission manager `transmission.rs` | heap, rate limiter, MQTT client and its event loop, counters | accept, transmit urgent, heartbeat, flush | heap order, retries, tokens, a bounded channel nobody reads during the flush |
| process `main.rs` | shutdown flag, task handles | spawn, signals, join | order of signals, tasks that do not end |
| local MQTT bus `main.rs` | MQTT connection | birth and death messages | independent of the rest |
| configuration `config.rs` | none after start | load | - |

Correct means: no accepted message is lost or sent twice; every sample ends up in
one aggregate; urgent messages leave first and in order; the satellite link's
rate is bounded; a shutdown reaches every task and the process ends.

### 1.2 API server (Go, Gin, pgx, Redis, Kafka)

Each request is a goroutine. `telemetry_service.go` writes to Kafka, Postgres and
Redis in sequence and reads Redis before Postgres; `cii_service.go` aggregates and
upserts; the other services are single SQL statements. Shared state is in the
database and the cache only. Hard: partial failures, overlapping requests, a
cached record older than the newest row. Correct means: nothing is answered that
is not stored; what was acknowledged is seen later; staleness ends.

### 1.3 Fleet performance application (Python, FastAPI)

Handlers are `async` functions that call a synchronous database manager, so one
worker runs them one at a time; but `render.yaml` starts two workers, each
statement is a transaction of its own, and a worker may be killed between two.
The workers meet in the database only. There are two dialects of it: SQLite and
PostgreSQL, each with its own copy of the schema.

| part | state | operations | hard behaviour |
|---|---|---|---|
| schema, database manager `database/` | tables, key sequences | one statement, one commit | two copies of the schema; `INSERT OR REPLACE` rewritten to `ON CONFLICT DO NOTHING`; `RETURNING` |
| demo data `demo/`, `api/demo.py` | all tables | seed at start, generate, reset | two workers seed at once; a job dies half way; deletions in the order of the foreign keys, while other workers serve certificates and ledger from the same tables |
| users and tokens `api/auth.py` | users, tokens in clients' hands | login, create, delete, change a password, default administrator | SELECT and INSERT apart; tokens that outlive the account |
| certificates `modules/certificate_manager.py` | certificates, expiry log | add, list, alerts, clearance | two statements; demo jobs that empty the two tables one by one; dates not checked; three readings of "expired" |
| compliance ledger `modules/*_compliance.py`, `models/compliance.py` | CII, ETS, FuelEU, EEXI, power limit, SEEMP rows | every calculation is a GET that appends a row; annual reports add up the rows | read and write apart; one voyage calculated twice; last year's answer kept |
| charterer figures `api/charterer.py` | none (reads `telemetry_daily`) | thirteen endpoints | each walks the same days its own way |
| hull condition `modules/hull_machinery.py`, `modules/digital_twin.py` | none (reads `hull_performance` or `telemetry_daily`) | assessment, trend, cleaning estimate, fleet comparison, performance index, twin | six reads of the same rows with windows, limits and directions of their own; four generated rows to a date, in no order; a baseline taken from the data judged |
| voyage, cargo, charter party, maps, reports | none of their own | evaluate stored rows | floating point |

Correct means: a seed or a reset leaves a database every later request can work
with; no two accounts answer to one name; a token speaks for one account; what
was logged, alerted and cleared about a certificate fits together; a yearly sum
is the sum of a year's voyages; what thirteen endpoints say of the same days, and
six of the same hull, can be told together.

### 1.4 Data generator (Python)

`simulator_engine.py` steps the simulated vessel (`simulator.py`): phase and motion, engines,
boil-off, fuel, emissions, cargo, in a fixed order over one shared vessel state.
Rows are buffered and appended to a table; `aggregate.py` reduces it to hours and
days, from which the application's analytics database is made. Hard: quantities
(gas, fuel, CO2, cargo) that several generators keep in counters of their own,
long sequences of legal steps, interruption with a full buffer, a second run into
the same table, aggregates by the difference of an odometer. Correct means: the
books agree, a voyage goes on, an aggregate is what was sailed.

### 1.5 Machine learning, frontend

They keep no state that other parts depend on; they are not modelled.

`PROJECT.json` lists every component with its status, and under `hazards` every
place where this code is hard to test, with the property that watches it or the
reason why none does yet.

## 2. Modules

| module | models | extends |
|---|---|---|
| `RateLimiter` | `RateLimiter::acquire` | |
| `EdgeTransmission` | `transmission_manager`, `transmit_high_priority`, `flush_queue` | `RateLimiter` |
| `EdgeGateway` | pollers, analytics engine, signals, join of `main` | `EdgeTransmission` |
| `EcaTracker` | `eca.rs` | |
| `TelemetryService` | `Ingest` and `Latest` of `internal/services/telemetry_service.go` | |
| `FleetSchema` | `database/schema.py`: keys, references and unique columns of both schemas | |
| `DemoData` | `demo/`, `api/demo.py` | `FleetSchema` |
| `Users` | `api/auth.py` | `FleetSchema` |
| `Certificates` | `modules/certificate_manager.py`, the demo jobs on its tables | `FleetSchema` |
| `Sums` | SQL's `SUM` and the loops that add up a column | |
| `Ledger` | `modules/cii_compliance.py`, `eexi_compliance.py`, `seemp_compliance.py`, `models/compliance.py`, the demo jobs on their tables | `FleetSchema`, `Sums` |
| `CharterFigures` | `api/charterer.py` | `Sums` |
| `HullCondition` | hull endpoints of `modules/hull_machinery.py`, hull health of `modules/digital_twin.py`, the rows they read | `Sums` |
| `VoyageSimulator` | `lng-data-generator/`: the loop of `simulator_engine.py`, the generators, `aggregate.py` | `Sums` |
| `FleetApp` | composes `DemoData`, `Users`, `Certificates`, `Ledger` | all four |
| `MCFleetApp` | bounds for `FleetApp` | `FleetApp` |
| `MCAnalytics` | composes `VoyageSimulator`, `CharterFigures`, `HullCondition` | all three |
| `MCShipToShore` | composes `EdgeGateway`, `EcaTracker`, `TelemetryService` | all three, with the bounds of two |
| `MC*` | constants for TLC | their module |
| `EdgeTransmissionProofs` | theorems | its module, TLAPS |
| `ShipToShoreProofs` | theorems | `EdgeGateway`, `EcaTracker`, `TelemetryService`, `EdgeTransmissionProofs` |
| `DemoDataProofs`, `LedgerProofs` | theorems | their modules; the last `SumsProofs` |
| `SumsProofs` | lemmas | `Sums`, theorem modules of the library |
| `FleetAppProofs` | theorems on users, certificates and the composition | `FleetApp`, `DemoDataProofs`, `LedgerProofs` |
| `FiguresProofs` | theorems | `CharterFigures`, `HullCondition`, `SumsProofs` |
| `AnalyticsProofs` | theorems | `MCAnalytics`, `FiguresProofs` |

Definitions named `...` with a comment *Mutant:* are wrong variants of the
definition that follows them; `PROJECT.json` says which property each of them
violates. They are part of no specification.

### RateLimiter

`tokens`, `limit` and `age` are `tokens`, `max_per_min` and the time since
`last_reset`. Time is in ticks, `Window` of them to a minute; `age` stops at
`Window` because the code only compares with 60 s. `Acquire` is the call that
returns; a call that has to wait is one that is not enabled yet.
`AcquireRefillsNothing` is the pass through the loop that refills zero tokens and
then subtracts the elapsed time read before the refill: it panics when more than
60 s had passed. `spent` is a history: `spent[k]` tokens went out in this tick and
the `k` before it, so `spent[Window - 1]` is what any minute saw.

### EdgeTransmission

`pc` is where the manager is: `select` (the `select!`), `collect` (the peek/pop
loop at 294), `acquire` and `publish` (the sending loop of both callers,
`flushing` tells whose), `tail` (199-242), `disconnect`, `done`. A message is its
kind and its rank of creation; a channel is the number of messages in it, because
nothing about them matters before they are taken. `Less` is `Ord::cmp`, `IsTop`
what `BinaryHeap::peek` returns. `reqs` holds requests the client has accepted,
`sent` those the event loop has moved on; the code polls the loop only at the end
of an iteration, so `EndIteration` is the only action that moves them.
`PublishFails` re-queues in one caller and drops in the other, as the code does.

*External:* the heap and the MQTT client, modelled from their use here.

### EdgeGateway

Adds one `pollerPc` per poller, the analytics engine as `analyticsPc` with the
list `todo` of sends its current branch has still to make, and the signal
handler. Both kinds of poller have the same control and share actions, but the
OPC UA poller closes its session before it returns (`closing`). In three places a
poller awaits its device (`AwaitsDevice`): connecting, reading and closing; the
code sets no timeout there and does not look at the shutdown, so the device's
answer (`DeviceAnswers`) may come late or never. The signal handler goes on to
SIGTERM also when Ctrl-C cannot be listened for (`CtrlCUnheard`), and panics when
SIGTERM cannot. A send waits while the channel is full and fails when the receiver is gone. Which
samples are anomalies, which positions cross a zone border and when a window
expires are open choices (`BranchSends`, `DrainWindow`), so no property depends on
them. `shutdown` is level-triggered: `Shutdown::wait` clones a receiver that has
never seen the value, so a later `wait` returns at once.

`ImplementsTransmission` is a refinement: with `budget` mapped to what the
engine may still send, every step of the gateway is a step of
`EdgeTransmission` or leaves its variables alone. What is proved there
therefore holds inside the gateway.

### EcaTracker

Zones are indices into `ECA_ZONES`, coordinates half degrees. `open` is a history:
the zones a receiver that replays the events believes entered.

### TelemetryService

One vessel (rows and cache key are per vessel). A record is known by the request
that brought it; `stamp` is its `recorded_at`. A failed call may have taken
effect, because the request's context ends with its client. `disturbed` is a
history: a fault, an overlap of two ingests or a late record has happened.

The statements at telemetry_service.go:59 and :134 name columns (`id`,
`recorded_at`, `speed_over_ground`, ...) that the table `telemetry` of
`lng-fleet-system/migrations/001_schema.sql:65`, which docker-compose.yml:14 deploys,
does not have: it has `time`, `sog_kn` and so on. On a database made by that file
every INSERT and every SELECT of the service fails, and of the model only `StoreFails` and
failed reads are left. The model takes the table the statements are written for.

### FleetSchema

Both schemas as data: for every table its key, the tables its rows must or may
refer to and the unique columns; the tables are written in groups that `TablesOf`
puts together. `Schema` picks the one of the deployment. The
other modules take from it what a DELETE may remove (`DemoData`: no row that is
referred to) and what an INSERT refuses (`Users`: uniqueness).

### DemoData

A job (start, generate, reset) is a list of statements, and a step of a worker is
one of them: `INSERT`, `DELETE`, a look at the number of rows. A row is its table,
the rows it refers to (`up`) and the job that wrote it. Since every DELETE of the
source empties its table, one row stands for the rows its batch writes there.
Other handlers append rows to the tables in `Recorded`, which is what a reset
trips over (all tables but `engine_cylinder_data`, which the source only reads). A failing statement ends its job: with an error for a request, in
silence for the seeding at start, as in the source.

### Users

`users` and `tokens`; a request that has done its SELECT but not its write is in
`request[h]`. `removedAt` is a history: when a key's account was deleted. Time
passes in ticks between requests and a token lives `Lifetime` of them.

### Certificates

One vessel. What a worker has still to execute lies on its `desk`: the second
statement of an addition, the seeding, or the DELETEs of a demo job. Adding is two
statements; between them the worker may die, or a demo job may delete the
certificate, and then the foreign key refuses the log row (`LogRefused`). generate
empties the log seven statements before the certificates, reset the certificates
first; a DELETE from certificates that a log row refers to fails, after which
generate goes on and reset ends (`DeleteRefused`, which may also happen because of
another vessel's row). The certificates generate adds come through
`add_certificate`. `lost` and `wiped` are histories: the certificates whose worker
died before the log row, and those whose log row a demo job deleted while the
certificate stayed. `Validation`, `Alerts` and `ListStatus` are the three readings of
an expiry date. Time is in half days because `(expiry - now).days` rounds down. On
PostgreSQL adding fails before it writes: `insert_returning_id` asks for the column
`certificates_id`, which the table does not have (its key is `cert_id`).

### Ledger

Each calculation is a request that appends to its book (`assessments`,
`etsRecords`, `fuelRecords`, ...), so asking twice writes twice. `task[w]` is a
request between its SELECT and its write, `halves` a history of voyages of which a
FuelEU answer was cut short, by the end of its worker or by a demo job that emptied
the book under it. Alerts,
annual sums, the FuelEU aggregate, improvement figures and the status of a fleet
are operators on the books. `SumOf` picks the rows of a vessel and year and adds
them up with `Total` of `Sums`, a recursive function, so that it can be reasoned
about. A FuelEU request keeps the places of the fuels it has yet to write (`left`).
Where the code rounds a limit to two places, `TrajectoryLimit` rounds to hundredths.

A DCS report is written once. `generate_dcs_report` would UPDATE an existing one, but
its statement sets `updated_at`, which `seemp_reports` has in neither schema
(schema.py:712 and 1461): it always raises, and the old report stays (`WriteReport`).

A behaviour is the life of one fleet. generate and reset empty the books and then, or
first, the voyages (`sailing`), a statement at a time and stopping where a statement
on another table may stop them (`DemoOnLedger`, `DemoDelete`, `DropTask`); the seeding
appends CII rows (`SeedCii`). `erased` is a history: the rows they deleted
from the two books whose sums are stored. A CII request reads the voyages before they go and
may write after, so `CalculateCii` stays possible then. The vessels a later job creates
have new keys, and so books of their own: another behaviour.

### FleetApp

The four parts in one database with one dialect. The demo jobs are the handlers that work on
the tables of several of them: `DemoData` has all their statements, `Certificates`
and `Ledger` have those on their own tables among their actions. `DemoJobsAgree`
compares the three: TLC checks that what the two parts take, in their order, is
exactly what `DemoData`'s lists of statements, and so the source, say of these tables. In a part a
demo job may start at any time and stop at any statement, which covers every way in
which the rest of the job can go; so a part needs nothing of another, and no property
speaks of two. `AppSpec` interleaves the steps of all parts freely, and
the theorems are about it. A statement that two parts model is a step of each, with
anything in between: more behaviours than the code has.

### CharterFigures

The table of days is the state; one operator per endpoint, named for it. The only
action is that the aggregation adds a day for a vessel; TLC so visits every sequence
of days up to the bound and evaluates the endpoints on each. Money is written as
columns that are added up (`VoyageRevenue`, `PortsOfEndedLegs`): a loop that carries
`in_leg` from row to row pays a port on the row where the row before was in a leg
and this one is not. `laytime` likewise: a stay is closed where a day at port is
followed by a faster one or by none (`StayEnds`), and what `current_stay` has counted by
then are the days at port in a row up to it (`CurrentStay`). A condition on days is an
operator (`AtPort`, `LadenUnderWay`, ...), counted by `Count` over the rows of a vessel
and by `Vessels` over the vessels of a day. Where the aggregation writes NULL for a mean that
no row supports, the day has 0, and `MeanKnown` leaves such days out, as `AVG` does.

### HullCondition

`performance` are the rows of `hull_performance` as they were inserted, each with its date
and the call that wrote it, `telemetry` the days of
`telemetry_daily` as the coefficient of power over the cube of speed. `Converted`
turns days into rows against `Baseline`, their median; `Fouling`, `Trend`,
`Cleaning`, `Compared`, `Index` and `Twin` are the endpoints. Rows come from the
static seed, the generated demo data or the daily aggregation. The generator calls
`_create_hull_data` once for every voyage of a vessel (generate_data.py:28-35), each call
a row a day back in time from today: four rows for each of thirty dates, a statement
each (`RecordHull`, with the cursor `writing`), and another generate may empty the
table at any of them (`ClearHull`). The endpoints order by date alone, so
`Readings` is the set of what they can see, one for each order of the rows of a date,
and every verdict is checked, and proved, for each of them. The calls of one generate are assumed
to fall on one day. Two generators at once, or a seeding beside one, are left to
`DemoData`. What a mean leaves out
is said by the places that stay: `Deviating` drops deviations of zero, as the code's
`if r[...]` does, `UnderWay` the days without a coefficient, of which the twin makes rows
that deviate by zero. `Nth` is the k-th of the deviations in order. Everything is in
fixed-point integers, so a value within a rounding of a limit may fall on its
other side; weather, trim, costs and texts are left out.

### VoyageSimulator

`ship` is the vessel state all generators write, `Sailed` one pass through them in
their order: voyage, cargo, boil-off, fuel, generators' load, emissions, port. The
phases are those the program can reach. `buffer` holds rows not yet appended to
the table, `raw` the rows appended, one sequence per run of the program; a run is
interrupted at any step (its buffer is lost) and run again from the start.
`HourlyDistance` and `DailyDistance` are the aggregates. `dry` (the tanks have been
at the heel in this run), `moved` (what cargo work has moved) and `since` (steps in
the phase) are histories.

### MCFleetApp, MCAnalytics, MCShipToShore

A product of the parts' state spaces is out of TLC's reach. Since no part reads what
another writes but for the demo jobs, whose statements each part has itself, and since no
property speaks of two parts, TLC explores one part in each behaviour (`focus`), and of
the ledger one book (`cii` with the SEEMP reports, which add up the assessments);
the demo jobs are among the steps of each. That this loses nothing does
not rest on `focus`: the proofs are of `AppSpec`, without it. At most one demo job at
a time works on the ledger there (`OneDemoJob`). `MCAnalytics` does the same for the
generator and the two readers of the analytics database; its `OneSource` keeps
telemetry beside many generated rows out, which no endpoint would look at.
`MCShipToShore` explores the gateway on its way down, the zone tracker or the
telemetry service. These three share no variable in the code either: the engine only
sends what the tracker returns, and between ship and service lies the network. Its fairness
is that of the gateway and of the service, each for the behaviours that explore it.

## 3. Runs

| run | checks | expected | distinct states |
|---|---|---|---|
| `uplink` | the manager alone, 9 invariants | pass | @uplink@ |
| `uplink_urgent` | "Transmit high-priority messages immediately" (transmission.rs:173) | violated | |
| `uplink_full_channel` | a triggered shutdown ends the task, request channel of 1 | violated | |
| `uplink_batch` | "Periodic batch transmission of aggregates" (transmission.rs:241) | violated | |
| `gateway` | accounting of samples and events, refinement | pass | @gateway@ |
| `ship_to_shore` | shutdown reaches manager, engine and pollers; tracker and receiver; answers, freshness, convergence of the service | pass | @ship_to_shore@ |
| `gateway_signal` | Ctrl-C ends the process (main.rs:157) | violated | |
| `gateway_device` | both signals end the process (main.rs:157, :184) | violated | |
| `eca_exit` | "Zone change: exit old, enter new" (eca.rs:134) | violated | |
| `fleet_app` | demo data, accounts, certificates, ledger, with two workers | pass | @fleet_app@ |
| `analytics` | generator and its aggregates, charterer's figures, hull condition | pass | @analytics@ |
| `analytics_heel` | burnt gas has left the tanks (generators/bog.py:75) | violated | |

What the violated runs show:

* **Urgent messages are not sent at once.** The heap is a max-heap on the priority
  number, so with any bulk message queued the loop of `transmit_high_priority`
  sees that one first and stops. `UrgentWaitsOnlyBehindBulk` (proved) says that
  this is the only reason besides a failed publish, and `BulkWaitsForShutdown`
  (proved) that a bulk message stays until the flush: from the first bulk message
  on, urgent messages wait for the shutdown.
* **Aggregates leave in no batch.** The comment announces a periodic transmission and the
  technical specification (lines 94 and 656) a batch every five minutes; what follows
  is a sleep of 100 ms. Nothing but the flush at shutdown takes an aggregate off the
  heap, which grows for as long as the gateway runs. `BulkWaitsForShutdown`, which
  passes and is proved, is the code's side of this disagreement.
* **A flush can block for ever.** It publishes without polling the event loop; the
  request channel holds 100 requests. The model uses 1; since all bulk messages
  stay queued until the flush, 100 are reached after a few hours of aggregates.
  `FlushEndsIfItFits` says that this is the only place where a shutdown gets stuck,
  and that a flush which fits the channel, with its Disconnect, ends.
* **A silent device holds the exit.** Pollers await their device without a timeout and
  without a look at the shutdown, in connect, read and disconnect; the join waits for
  them, whatever signals have been handled.
* **A Ctrl-C does not end the process**: the handler waits for a SIGTERM next and
  `join!` waits for the handler. The other order is a kill: before a Ctrl-C
  nothing handles SIGTERM.
* **A zone change reports no exit**, so a receiver believes two zones open.
* **At the heel gas comes from nowhere.** The boil-off generator takes nothing
  from tanks at the heel but goes on to compute natural boil-off; the engine has
  changed over to MGO by then, so all of it goes to the combustion unit, and fuel
  and CO2 are counted for it in every step of the rest of a ballast leg.

What the passing runs of the application show, besides the properties as such
(they state what the code really guarantees, which is at times less than one
would expect):

* `DemoDataIsSound`: a generate that runs alone gets through its forty-two DELETEs
  whatever earlier jobs left behind, and what it then answers is true; on
  PostgreSQL it always stops at the certificates. A reset never answers success: it
  deletes voyages before their children, and its last tables are in no schema. The
  static rows can be doubled only by workers that start together.
* `LastAdminFallsToAGhost`: "Cannot delete yourself" compares with the token; the
  last administrator can be deleted, but only through the token of an account that
  is itself gone.
* `LogFollowsCertificates`: a certificate without its log row is one being added, one
  whose worker died between the two statements, or one whose log a generate emptied
  without reaching it: killed on the way, or refused because another worker logged a
  certificate in between.
* `StoredTotalsLagBehind`: the surrender obligation of a year is written once; the
  voyages calculated afterwards never raise it. Nor is a DCS report ever brought up to
  date. A worker that had added up the rows before a demo job deleted them still writes
  its total; so the bound is the sum of all rows ever written.
* `ClearanceAndAlertsAgree`: the clearance refuses what the alerts show, except for
  a certificate whose date is no date, and on the last day.
* `MoneyAgrees`, `OperationAgrees`: the identities between the endpoints, with the
  allowances the comments in `CharterFigures` give (a port charged in advance, a
  quarter only the bunker report knows).
* `HullVerdictsAgree`: within one window the assessment and the twin judge alike. Of
  three trends of the same rows two tell one story, the performance index the
  opposite: it calls "improving" what the assessment calls "increasing", because it
  takes the newest rows for the oldest; and `hull_trend` calls a constant deviation
  "decreasing". A hull known only from telemetry is measured against its own median:
  a coefficient twice as high on every day changes no verdict, more than half the
  days count as clean whatever the fouling, and none is "excellent" that is not
  better than its own median. Generated rows overrun the windows, four to a date in no
  order the endpoints ask for: what they say of the newest row still agrees, and no
  order makes a vessel need cleaning (`OrderIsImmaterial`), because the rows of today
  are never foul; windows compare only when they hold all rows.
* `AggregatesFollowVoyage`: hours lose the step across each full hour, days the
  step across midnight; a second run into the same table can make a day longer
  than either vessel sailed.

Bounds. `MaxEvents` limits what the environment sends (4 in `uplink`: two urgent
and two bulk messages, or three and a heartbeat, meet in every order);
`MaxFaults` the messages that fail (1: the re-queued one against all others);
channels of capacity 1 are full after one message, which is the case that
matters; `ReqCap` is 2 in `uplink`, `gateway` and `ship_to_shore`, so that some flushes fit
and others fill it (a message and the Disconnect are two requests), and 1 in the violation runs
of the manager; in `gateway_signal` and `gateway_device` it is 12, more than those runs can
publish, so that what keeps the process from ending is the signal handler or the device and
not the client. `Window = 2` lets a minute straddle a refill; `RateLimits =
{0, 1}` holds the limit that panics and the smallest that does not. `gateway` has
two pollers that the engine serves in a fixed order, and one sample each;
`ship_to_shore` one poller with two samples, so that the second blocks on a full
channel, each with at most one anomaly, and at most four events and aggregates in
all (`MaxRaised`): two windows, or a window between two anomalies. Its service has three
ingests, two of which share a time stamp, and one reader; requests differ in their time
stamps only, so one order of these stands for all (`InOrder`). The cache lives for two
ticks, so it can expire between any two steps. Positions are one for each combination of
boxes that some position lies in: `check_transition` tells no others apart.

`fleet_app`: `Budgets` gives the numbers of workers, requests and crashes that are
explored together (a crash with one worker; a start or a generate beside another
job without crashes; a reset beside handlers that record rows), each the
smallest in which two jobs interleave or one is cut. Four keys
(`MaxIds`) are one more than the accounts that can exist at a time, so that a key
would be seen if it were given out again; two tokens are what two administrators
need to delete each other; `MaxTime = 2` with a lifetime of one lets a token expire
before and after its account goes. The certificate dates lie before and behind
the last day explored, and each threshold falls on both sides of a day's half. The
voyages of the ledger are one of each year, one within the EU and one that leaves
it, with the fuels whose factors differ; days 200 and 400 of the calendar are in
two years, and the seeded CII rows are of the first. `MaxRows` bounds the rows ever written to
a book: two CII and two ETS rows (so that a total is stored between them), four FuelEU rows (a
voyage with two fuels twice), two limits or measures. `MaxCertificates` is two: one to be added
while a demo job deletes the other, and two of one type for the clearance. Workers are
interchangeable (symmetry).

`analytics`: six kinds of day (laden, thriftier, slow, ballast, anchored, in port)
tell the branches of the endpoints apart, five days hold two voyages with a port
between them. The generator runs 36 steps, more than a full round of load,
passage, discharge and ballast passage to the heel, and then seven of a second
run; six steps are a day, two an hour, four rows a buffer, so that buffer,
hour and day end at different steps. The coefficients of a hull's days (84, 96 and
103, and 0 for a slow day) give deviations in every level against each other as
baseline, down to the clamp at minus ten percent. Windows of 5, 6, 7 and 4 rows
stand for 30, 60, 100 and 10, in the order of the code's limits, and seven days of telemetry
overrun the first two. The generator's two calls (`Calls`; four in the code) of five rows
(`RecordDays`; 30) overrun all of them with ten rows, two to a date; `Growth = 120` and
the noise -150 and 250 let five days go through every level the thirty days of the code,
with 20 a day and half a percent of noise, go through. One hull suffices: endpoints read one vessel's
rows, and the fleet's list goes vessel by vessel.

Deadlock is checked in `uplink` and, of the violation runs, in those of the manager but for
`uplink_batch`, and in `eca_exit`. It is not checked in `uplink_batch`, which asks for
progress, in the gateway's runs and `ship_to_shore`, where the process exits or is killed and
requests end, nor in `fleet_app` and `analytics`, where all requests, or the runs of the
program, end.

Fairness. `FairSpec` and `GatewayFairSpec` assume that a task that can run does
(tokio's scheduler) and that time passes; for pollers also that the shutdown
branch of an unbiased `select!`, enabled again and again, is taken in the end
(tokio picks a random start). Nothing is assumed of devices, whether a poller connects,
reads or closes (`DeviceAnswers` has no fairness), nor of networks, signals,
faults or the window clock. `TelemetryFairness` assumes that a started handler
goes on (the Go scheduler; calls end by answer or by the request's context) and
that Redis' clock runs; new requests need not come.

## 4. Proofs

TLAPS checks every theorem for all values of the constants that satisfy the named
assumptions:

* `RateLimiterAssumption`, `TransmissionAssumption`, `GatewayAssumption`,
  `PositionAssumption`, `TelemetryAssumption`: capacities, windows and limits are
  natural numbers of the right sign, positions and stamps are integers, the sensors
  are a finite set;
* `DemoAssumption`, `UsersAssumption`, `CertificatesAssumption`: kinds and signs of
  numbers, the default administrator among the names, which tables others fill;
  `DialectsAgree` and `CertificateKey`: two facts about the schema texts that TLC
  computes from `FleetSchema`;
* `SimulatorAssumption`: rates that leave the tanks between their limits; and
  `LoadingAssumption`, for `VoyagesAlwaysGoOn` alone: what boils off during a
  whole loading is less than one step loads and the two hundredths from 95 to 98
  percent. Without such a bound a loading could lose what it loads and never end.
  The source loads 12,000 m3 an hour and boils off a small part of that;
* `LedgerAssumption`: the voyages, vessels and workers are finite sets, a voyage has
  the fields of its row, the calendar has a day, the seeded CII rows are of one of its
  years and have the fields of a row;
* `DemoJobsAgree`: that the tables `Certificates` and `Ledger` have their demo jobs take
  are those `DemoData` lists, in its order, another fact TLC computes;
* `CharterAssumption`: a row's figures are natural numbers, its cargo a percentage,
  each day has a month;
* `EmissionAssumption`, for the ratings of `OperationCorrect` alone: a vessel emits at most
  0.80 tonnes of CO2 a day for each tonne aboard. The generator never empties its
  tanks below three percent (`HEEL_FRACTION` of `bog.py`), 2349 tonnes, so a vessel would have
  to burn about 680 tonnes of gas a day to break it; those of the run burn 110;
* `HullAssumption`: the assessment reads no more rows than the performance index, and that
  no more than the trend (30, 60 and 100 in the source); a generator call writes at least
  as many days as the assessment reads (30); coefficients are natural numbers; the noise
  of a generated row is within 4.3 percent (it is half a percent times `random.gauss`, which
  cannot exceed 8.6); and the static rows
  deviate by less than 15 percent (their reference power is 75 times the cube of the
  speed, far above the power they state).


The invariants of the runs are seldom inductive; what is added to make them so:

* `EdgeTransmissionProofs`: the type invariant and all safety invariants of the
  run `uplink`. `ControlInv` says where the manager has a batch and whose;
  `HistoryInv` that identities are fresh, which keeps a new message from
  coinciding with an old one; `BatchInv` that a batch is taken only when the heap
  held urgent messages alone, and takes them all, from which both the order and the
  "only behind bulk" claim follow. The two counting claims use the cardinality
  theorems of the library. `TwiceTheLimit` (any minute sees at most twice the
  configured rate) rests on `LimiterInv`: what went out since the last refill and
  the tokens left make `limit`, the rest of the last minute fits into the period
  before, and once a refill is due nothing goes out before it happens. `spent` is
  cumulative, so nothing has to be summed.
* `ShipToShoreProofs`, gateway: what the gateway run checks of safety, for any number of
  pollers and samples, any capacities and any length of run. `GatewayPart` adds to the
  types that a poller's send fails only when the engine is gone (`PollerInv`) and that
  the engine has nothing to send between two branches (`EngineInv`); `EventsInv`
  counts what the manager took as a finite set of identities; `ShutdownInv` says
  that no task ends or starts to flush before the signal handler has triggered the
  shutdown, whence `NothingRefusedBeforeShutdown`; `RaisedInv` that a sample gives
  rise to at most `MaxAnomalies + 3` messages. `GatewayImplementsTransmission` is the refinement
  itself: with `budget` read as the sends the engine may still make, the
  initial states map to initial states and each step of each actor to a step of
  `EdgeTransmission` or to a stutter (`UplinkInit`, `UplinkStep`). Channel,
  heap and client are the same variables in both, so the mapping has to
  supply the budget only, and the proof is that it never runs out. `ManagerPromisesHold`
  states the manager's eight invariants, the urgent order and the sliding minute
  among them, of the gateway.
* `ShipToShoreProofs`, ECA tracker: `ChannelIsShadowed` needs that the box of the Channel lies in
  that of the North Sea and that the first box wins, two lemmas about
  `PointInEca`. The type invariant (`EcaTypeOK`) is proved only, no run repeats it.
* `ShipToShoreProofs`, telemetry: `FreshInv` ties the cache to the acknowledged records
  while nothing was disturbed; `KnownInv` keeps what a reader knew acknowledged.
  `TelemetryTypeCorrect` is the type invariant the run checks.
* `DemoDataProofs`: `DemoDataIsSound` for any number of workers, jobs, crashes and
  recorded rows, in both dialects. `DemoInv` has four parts. `DatabaseOK`: every row
  lies in a table that something writes, the rows it refers to exist and are of the
  tables the schema names. `JobsOK`: a busy worker is at a statement of its job,
  and alone if it believes so. `LoneSeedFindsNoOlderRows`: a lone seeding at start
  that got past its look at the vessels writes into an empty database. `LoneGeneration`:
  a lone generate that passed its i-th DELETE has emptied that table
  (`Cleared`), and one that passed its i-th INSERT has put its row there, under its
  own vessel, tanks and voyage (`Filled`). The argument goes in three stages.
  `StatementEffect` says once for all kinds of statement what one does to the rows,
  whoever issues it. `EveryStepLeaves` says of each action which parts of the state
  it can touch. `ChildrenFirst` says of the list of DELETEs that a table comes after all
  that refer to it, so that no foreign key stops a lone generate;
  `NothingWithoutVessels` that a database without vessels has no row that refers to
  anything, which is why a lone seeding may look at the vessels only; `ResetFails`
  that a reset never reaches its last statement.
* `FleetAppProofs`, accounts: the type invariant and all three properties about accounts and
  tokens, for any number of workers. `UsersInv` adds to them that keys are spent
  once and in order (`KeysAreSpentOnce`: an insert cannot hit the key of a token),
  that a token's key has one name and role (`TokensNameTheirRow`), that a token of a
  deleted account carries its expiry from before the deletion (`GhostsExpire`)
  and that a pending deletion is not of the token's own account
  (`DeletesAreSomeoneElses`).
* `FleetAppProofs`, certificates: type correctness, `LogFollowsCertificates` and
  `ClearanceAndAlertsAgree`, with the demo jobs deleting both tables in between. `CertInv`
  adds `KeysInOrder` (keys are handed out once and in order, also those of rows that are
  gone and of rows still being added, so a log row never meets another certificate's key),
  `DialectsDiffer` (on SQLite nothing is seeded, on PostgreSQL nothing added) and
  `LogIsComplete`: the log has one row for each active certificate but those being added,
  those lost with their worker and those wiped by a demo job. `EmptyingKeepsInv` is the
  step in which a demo job empties one of the two tables; it may take the log alone
  and stop, which is why `wiped` is needed. `ReadsAgree` compares three readings
  of one date by three roundings (`Judgements`, `DatedHasDays`); the clearance looks at the
  last active certificate of each type, which exists because a nonempty set of
  numbers has a least element (`ChosenExists`), and its answer is the judgement of
  that one (`Decisions`).
* `SumsProofs`: what `Total` returns, for any number of rows. An induction over rows
  is done by the least number at which the claim would fail (`Least`). `SumsExist`
  and `SumsAgree` say that the sums of a column exist and have one meaning,
  `TotalOfOneMore` what one row adds, `TotalOfLonger` that more rows add up to no
  less, `TotalIsMonotone` that a column nowhere below another adds up to no less,
  `TotalOfOneChanged` what a changed row changes, `TotalOfRises` that the steps of a
  rising sequence add up to the difference of its ends and `TotalWithinRises` that
  pieces of it that do not overlap add up to no more. `Places` counts the places of a
  list at which something holds, `DivisionBounds` is what rounding down loses,
  `TotalOfSum` and `TotalOfConstant` make of means what they are.
* `LedgerProofs`, stored totals: the ledger's types and `StoredTotalsLagBehind`, for any
  fleet, voyages, calendar and number of workers. Demo jobs empty the books, so the
  argument is about the rows ever written, those in the book and those deleted
  (`EverAllocated`, `EverAssessed`): `BooksStep` says that a step leaves these as they are
  or adds some, whence `SumsGrow`: no sum over them ever falls. The
  inductive invariant `LedgerInv` adds `TasksLagBehind`: what a worker carries from its
  SELECT to its write is at most what the rows ever written add up to by now. Without it a write
  could store any number. `TaskStep` says that a step gives at most one worker another
  task, and that one fits the books; `DemoDeleteFits` that emptying a table leaves every
  other worker's task fitting. `SurrenderStep` and `ReportsStep` say what a step
  does to the stored totals; one that replaces those of its year leaves one (`Replacing`).
* `LedgerProofs`, `AnnualAnswersFollowVoyages`. The FuelEU aggregate is an average over
  rows, of which a request in progress has written some: no statement about the rows
  alone is inductive. `Balanced` says it of the rows together with what the workers
  still owe (`Due`), for every set of voyages each within a limit and none cut short: a
  new request owes a whole voyage, which is within the limit, and a write moves a fuel
  from what is owed to what is written. A demo job
  that empties the book marks the voyages of which it cut an answer short, and what is left
  to write is no longer within the claim (`EmptyingKeepsBalance`). When no request for these
  voyages is under way nothing is owed, and the rows alone are within the limit. Drift alerts: the
  boundaries of the ratings ascend (`BoundariesAscend`), a D or E is beyond the required
  value (`BadRating`), and the projection scales by days of the year over days passed,
  which makes nothing smaller (`ProjectionIsNoBetter`). Improvement: every
  calculated assessment of a vessel and year holds the fuel of the same voyages, and a seeded
  one, which has no projection, none (`FuelsOK`), so
  the sum over assessments is that fuel as often as it was asked for.
* `FleetAppProofs`, composition: `AppSpec` of `FleetApp` interleaves the steps of all four parts
  freely. A step of one leaves the variables of the others (`OneComponentMoves`) and none
  changes the dialect (`DialectIsFixed`), so each part's specification holds of it (the
  lemma `AppImplementsItsComponents`), and with it the type invariant and all eight
  properties of the run (`AppTypeCorrect`, `AppKeepsItsPromises`). What makes this more
  than bookkeeping is in the parts: each has the demo jobs' statements on its own
  tables as steps of its own, at any time. TLC's `MCSpec` only restricts `AppSpec`.
  `AnalyticsImplementsItsEnds` and `AnalyticsKeepsItsPromises` are the same for `analytics`,
  of the specification TLC runs.
* `AnalyticsProofs`, voyages: type correctness, `BooksBalance` and `VoyagesGoOn` for any
  weather, speeds, rates, boil-off, demand and length of run. `SimInv` adds that the
  tanks never fall below the heel, which is what bounds what a step may take, and
  the types of rows. A lemma per generator says which book it moves
  (`VoyageBook`, `BogBook`, `FuelBook`, ...), the arithmetic is in lemmas of its own
  (`TankArithmetic`, `AirArithmetic`), and `StepKeepsInv` puts them together.
  For `VoyagesGoOn` (no phase outlasts its bound) `VoyageInv` gives each phase what
  moves on in it: the distance sailed of a passage (`PassageAdvances`), the timer of an
  approach, stay or departure (`TimerCounts`), the share discharged
  (`CargoLeaves`) or loaded (`CargoArrives`); `LoadFitsLeg` says which of the two the
  port of a leg does and that a ship in ballast has empty tanks.
* `AnalyticsProofs`, aggregates: `AggregatesFollowVoyage` for any length of hour, day and
  buffer and any number of runs. `OdometerInv` says that the rows of a run, those in
  the table and then those in the buffer, are a log (`IsLog`): one row per step, and
  a counter that neither falls nor rises by more than a step in the best weather.
  So a period's spread is its last reading less its first (`SpreadOfPeriod`), the
  spreads of a run miss the steps between its periods (`PeriodsMissSteps`, by
  telescoping), the hours of a day make up no more than the day (`HoursOfDays`), and
  each midnight loses one step. Rows of a further run can only widen a day
  (`RunWithinDay`).
* `FiguresProofs`, money: `MoneyAgrees` for any fleet and any table of days. The
  figures are totals of columns, so what holds of each row holds of the totals
  (`RowByRow`, `TotalIsMonotone`). Ports are the exception: a leg is entered on one row
  and paid for on another, and `PortsPaidPerLeg` counts, over the rows so far, as many
  ports as legs begun less the one still running. Fuel: the three endpoints cannot read
  the date of a day and charge the price of the first quarter, the lowest of all,
  which is why the bunker report never charges less.
* `FiguresProofs`, operation: `OperationAgrees` for any fleet and any table of days. What
  grows is the table alone, so the work is in the operators. Laytime: as many stays
  end as start (`AsManyEndsAsStarts`, counting along the rows: starts so far are ends so
  far but for a stay still running), and what the closed stays have counted so far are
  the days at port but for the current stay (`PortDaysAreCounted`, with
  `CurrentStayCounts`). Ratings: if no day was fast enough, neither is the mean
  (`NoneCompliant`); emissions that keep below the cargo of each day keep below that
  of all, and a vessel that sailed has at least that much work (`SailedIsRatedA`); a share
  of two sums is neither above all nor below all shares of the rows (`BogIsAMean`, from
  `SomeAbove`); alarms, load and age together stay below the limit of a high risk
  (`HighRiskHasCause`; that the deviation of the load is a number needs
  `SquareRoot`). Utilization: the rows of a day are the disjoint union of five kinds
  (`DayIsCounted`), a window of the newest days is one longer than the period
  (`WindowIsShort`). Benchmark: vessels alike but for their consumption differ in one
  score, which rises towards the market (`NearerScoresMore`); a mean that leaves out the days
  without a value is a number still (`MeanKnownIsNat`).
* `FiguresProofs`, hull: `HullVerdictsAgree` for any coefficients, noise, windows, number of
  generator calls and rows per call. The invariant `HullInv` says that the rows of a vessel
  are the static ones or a `GeneratedLog`: rows the generator writes (`WrittenBy`), one after the other by its
  cursor (`InARow`, `UpTo`), of one call or with a row of today among them (`OneCall`). That a new row
  keeps it is `OneRowMore`. The endpoints order by date alone: `PlaceFacts` and
  `ByDateFacts` say that sorting by date, with ties broken in any way, has every row
  once and the newest date first; `TodayIsNotFoul` that a hull
  with a row of today needs no cleaning whichever row comes first, from which `OrderHolds`. The rest of the work is in
  what the endpoints say of such rows, and the median is at the bottom of it: days under way have one
  (`MedianExists`) and one only (`MedianIsOne`), it is one of them and at most half of
  them lie below it; so `CHOOSE` in `Baseline` has its value. From that
  follows that more than half of the days that are read are clean (`MostDaysAreClean`) and that
  doubling every coefficient doubles the median and changes no deviation
  (`DoubledRows`, `DoubledLog`). `OneWindow` says when windows of different length read
  the same rows, `DaysReadFacts` what the twin makes of them, `SinceFacts` where the
  newest clean row lies. Means are bounded by what bounds every row (`MeanAtMost`), and
  a heavily fouled hull is not called good, because in generated rows roughness and qpc
  follow the deviation and lose their scores with it (`ScoresOfGenerated`,
  `HeavyIsNotGood`), and telemetry has a qpc that scores nothing (`QpcOfTelemetry`).

Only model-checked:

* Liveness (`ShutdownStopsAnalytics`, `ShutdownStopsPollers`, `FlushEndsIfItFits`,
  `CacheConverges`): fairness and ENABLED are beyond
  the prover. Every invariant and action property of the passing runs has a theorem.

## 5. Not modelled

Payloads, compression, topics, logging. Time-outs of the MQTT protocol and the
reconnection inside the client. The local MQTT bus. The Modbus register layout
(the code reads addresses 0 to n-1 while its tables list every second one; a
hazard, not modelled yet). All components with status `not_modelled` in
`PROJECT.json`, for the reason given there. The Rust sources as committed use
names the MQTT crate does not export (`EventLoop::try_recv`,
`Event::Disconnected`); they are modelled by what their use in the loop intends:
take what has arrived, do not wait.

Of the application: what `FleetSchema` leaves out (columns of data, CHECKs,
indexes); the EEXI formula; the status of a power limit, which reads a column
(`main_engine_mcr_kw`) no table has and fails; the CII fallback to the analytics
database (modules/cii_compliance.py:46), which calls a function that is defined
nowhere, so a vessel without voyages gets no row: the model's guard says so.
Prices, weather, positions, engine temperatures, stability and key figures of the
generator, which feed nothing back. The speed-power and trim tables of a hull and
the engine and boil-off indices of the twin. Voyage, cargo, charter-party and ECA modules of the application evaluate stored rows in floating point and
write nothing another part reads; maps and reports format.

## 6. Plan

Done: 1 `RateLimiter`, `EdgeTransmission` and proofs; 2 `EdgeGateway`;
3 `EcaTracker` and proofs; 4 `TelemetryService` and proofs; 5 the application:
`FleetSchema`, `DemoData`, `Users` and `Certificates` with proofs, `Ledger`,
`CharterFigures`, composed in `FleetApp`; 6 `VoyageSimulator` and proofs; `HullCondition`;
7 the proofs of the gateway with its refinement; 8 `DemoDataProofs`;
9 `LedgerProofs`; 10 `SumsProofs` and what rests on
it: the annual answers, the charterer's money, the aggregates; the two composed
applications (`AppKeepsItsPromises`, `AnalyticsKeepsItsPromises`); `FiguresProofs`.

Left, in this order:

11. The rest of the figures of condition: the engine and boil-off indices of the
    twin, the speed-power and trim tables of a hull.
12. `CiiRecords` of the API server: concurrent `Calculate`, the columns the upsert
    leaves alone, `Forecast` from the stale row.
13. The gateway's statistics buffers, odometer and fuel detection.
