# NexusTier: TLA+ models, model checking and proofs

NexusTier watches EasyTier virtual networks. A Rust *gateway* accepts EasyTier
clients, keeps one session per machine and assembles topology snapshots over
RPC; a Go *controller* polls the gateway, ingests each snapshot into PostgreSQL
in one transaction, and serves a console from the tables. This directory models
the parts whose correctness depends on order, concurrency and partial failure.

## 1. Inventory

| Part (source) | State | Operations | Talks to | What is hard |
|---|---|---|---|---|
| Session gateway (`gateway.rs`, `session.rs`, `session_pool.rs`) | pool machine → session; per session its heartbeat, watch channel, RPC manager | accept, heartbeat, first-heartbeat wait, insert/evict, watch, remove, shutdown | pool is read by the collector | concurrent tasks of one machine, a late disconnect, notification after unlock |
| Telemetry collector (`telemetry.rs`) | cached snapshot, running flight, per collection task set | `topology()`, `collect_topology()`, `collect_machine/instance()` | called by the gateway API, reads the pool, RPCs to clients | single flight, cache expiry, deadline racing results, bounded tasks |
| Contract (`gatewayclient/types.go`, `telemetry.rs` views) | – | building views, `Validate` | gateway → controller | partial errors inside a valid snapshot |
| Ingestion store (`ingest/store.go`, `001_telemetry.sql`) | runs, machines, instances, nodes, links, samples | `Ingest`: run insert, upserts, stale deletion, marking missing | called by the poller, read by the read model | out-of-order and repeated snapshots, partial failure, rollback, lost commit acknowledgement |
| Poller (`poller/worker.go`, `gatewayclient/client.go`) | status | serial fetch + ingest under one deadline | collector, store | timeout between the two, retries |
| Retention (`retention/cleaner.go`) | status | batched delete and payload pruning | tables | runs beside ingestion and duplicate checks |
| Read model, API (`readmodel/store.go`, `api/api.go`) | – | several queries per page | tables | torn reads, pagination under ingestion |
| Authentication (`auth/`) | token buckets, signing key | allow, refund, sweep, issue, verify | – | concurrent logins, full table, restart |
| Migrations (`database/database.go`) | schema version | lock, apply, record | tables | two controllers, crash between files |
| Controller process (`main.go`, `config/`) | – | start, shutdown | all | order of shutdown |
| Console data (`useTopology.js`, `Toolbar.jsx`, `MachineTable.jsx`) | list, cursor, filter, loading flag, requests in flight | timer, refresh, filter, load more, apply a response | API | overlapping requests, answers out of order |
| Console view (`App.jsx`, `TopologyGraph.jsx`, `DetailsPanel.jsx`, `utils.js`) | search, selection, node objects, drag, animation | refresh, search, select, pointer handlers, frame | fed by the console data | objects replaced under listeners and drags, drawing on demand |
| Operations script (`scripts/`) | files | backup, update | docker, pg_dump | external tools |

The properties that make each part correct are listed as hazards in
`PROJECT.json`, at the line where they bite, with the properties that catch them.

## 2. Modules

| Module | Models | Notes |
|---|---|---|
| `TopologyContract` | the snapshot, `Validate`, how RPC outcomes become views | lists keyed by an id are functions into views or `None`; error lists are sets of operations |
| `TopologyStore` | `Store.Ingest` | `db` committed tables, `work` the open transaction's tables, `tx` its snapshot and the machines done |
| `LiveTopology` | what ingestion promises its readers | no timestamps, tables or transactions: the published snapshots, online machines, host of each instance, links |
| `TopologyStoreProofs` | theorems about `TopologyStore` | |
| `SessionGateway` | accept loop, session tasks, heartbeat handler, pool | one element of `Sessions` is one tunnel with its task |
| `SessionGatewayProofs` | theorems about `SessionGateway` | |
| `TelemetryCollector` | `topology()` and `collect_topology()` | per-collection record, per-caller record, wall clock |
| `TelemetryCollectorProofs` | theorems about `TelemetryCollector` | |
| `Retention` | cleaners of several controllers beside ingestion | a statement is a selection and an application; a run has one sample |
| `RetentionProofs` | theorems about `Retention` | |
| `LoginGuard` | login limiter, login handler, session tokens | tokens are counted in the time it takes to earn them |
| `LoginGuardProofs` | theorems about `LoginGuard` | |
| `ReadModel` | the page query of `readmodel/store.go` | operators on committed tables |
| `TopologyConsole` | `useTopology` and the controls that drive it, composed with `ReadModel` and with ingestion that commits meanwhile | a list is the sequence of its pages, a page is the set of its machine ids with the state it was read from |
| `TopologyConsoleProofs` | theorems about `ReadModel` and `TopologyConsole` | |
| `TopologyView` | `App`, `DetailsPanel`, `TopologyGraph` with its animation loop | no coordinates: only whether something visible changed since the last drawing |
| `TopologyViewProofs` | theorems about `TopologyView` | |
| `Controllers` | several controller processes on one database: migration, worker, ingestion statement by statement, an API request, shutdown, crash | of the tables only runs and machines |
| `ControllersProofs` | theorems about `Controllers` | |
| `MC*` | instances for TLC | snapshots to enumerate, symmetry sets |

### How state and actions correspond to the code

*TopologyStore.* A row keeps `last_observed_at`, `last_collection_completed_at`,
`active` and what the properties tell apart; the descriptive columns, which are
only ever copied together, are represented by the collection they were copied
from (`source`, and `details` for the columns of a link that come from
`list_peers`). Every SQL statement of `store.go` that touches the modelled
tables is an operator with its own guard (`Supersedes` is the WHERE clause shared
by the upserts and the stale-peer deletion). `IngestMachine` is one turn of the
machine loop in the snapshot's order; `IngestCommit` includes
`markMissingMachinesInactive`; `Rollback` may happen between any two turns and
stands for a failing statement, the poll deadline, a lost connection or a crash.
`IngestCommit` may report an error although it committed. Statements inside a
turn are not separate steps: nobody else sees `work`.

*SessionGateway.* The heartbeat handler is two actions, because it sends the
notification after it released the state lock. Registration is `Register`
(`SessionPool::insert`) followed by `StopPrevious` (the awaited `stop`), and the
removal is `Unregister` with `remove_if_current`. `Shutdown` aborts the tasks at
the await they are in.

*TelemetryCollector.* The decision of `topology()` is one step because it is made
under the state mutex; `Store` and `Send` are two, because the snapshot is sent
after the mutex is released. `Deadline` aborts the unjoined tasks, finished ones
included, as `abort_all` followed by discarding the joins does.

*Retention.* `Start` is the beginning of `cleanup`, `Select` and the action named
after the statement are one SQL statement: PostgreSQL selects the batch, then
changes the rows it still finds (READ COMMITTED), and another cleaner's statement
may come in between. A deleted sample is skipped; a run pruned meanwhile is
updated again, since its id is still in the selected batch. `Fail` is a failing
statement or one whose result is lost. Runs without a digest, from before
migration 002, are in the initial states. `ingested` and a cleaner's `due` are
history.

*LoginGuard.* `Allow` and `Throttle` are the two outcomes of `LoginLimiter.Allow`,
which sweeps first; `Reject` and `Accept` are the rest of the login handler, as
late as the password check takes. `issued_at` and `failed` are history.
The code's floating-point tokens are exact here. A restart empties the table and,
unless a key is configured, replaces the key.

*TopologyConsole.* `fetchPage` is the start of a request, `latestCollection` and
`queryMachines` are the server's queries, each on what is committed when it runs,
`Receive` and `Fail` the two ends. `latest` is the run that completed last, which the
header names, or none; `Commit` is an ingestion in order, `CommitLate` one of a
collection that completed before, which leaves the header and may leave any row as it is. The page's instances and peers are read by
further queries with the page's machine ids; they are not represented
separately. `Init` is the state after the first rendering, whose effects have
sent the first request. `clean` and `undisturbed` are history: they say whether a
list was built without a response or a filter change coming in between.

*TopologyView.* React renders a response in `Refresh` and runs the effect of that
rendering in `machinesEffect`; between the two, frames and pointer events may
come. A click or a key flushes its own effects, so `SetSearch` and
`SetSelectedKey` are one step. The effect makes new node objects: the drawn
elements keep the old ones until the next drawing (`live`), and a drag keeps the
one it holds (`attached`). A searched list keeps its rows at the places they had
(`filtered`): only which rows there are and their order matter. `captured` models
`setPointerCapture`; a pointer that is not captured may be released where the canvas
does not see it, and one that was pressed elsewhere may be released over it. Of the
cards only the numbers of machines and of peers are represented.

*Controllers.* One element of `Controllers` is one incarnation of a process. An
ingestion is `InsertRun` (BeginTx with the first statement), `upsertMachine` per
machine in the snapshot's order, `markMissingMachinesInactive` (which finds its
rows in what is committed then) with `MarkRow` per row found (which locks and
looks again), and `Commit`. `writes` are the row versions a transaction has
written or locked: nobody else sees or changes those rows until it ends.
`AttemptFail` is the deadline, an error, a deadlock victim or the cancellation, with
the transaction ended in the same step. The deferred rollback has the expired context,
though, and may only close the connection: in `AttemptLingers` the attempt ends and its
transaction, or its commit, stays behind, as that of a crashed process does, until
`BackendEnds`. It takes the place of a controller that has not started, which to the
database is the same as a process that died; so an abandoned connection needs no state
of its own, and the number of places bounds how many there are at once. A failed
migration ends its process, and what it leaves is what a `Crash` leaves. `MigrateLock` is the
advisory lock; a file in `Altering` takes the table of runs, first come first
served. A migration's commit, like an ingestion's, may be reported as failed.

## 3. Runs

| Run | Question | Instance |
|---|---|---|
| `store_activity` | rows never older than what was ingested, samples, fresh convergence, partial failure — under any delivery | 3 collections, 2 machines, 1 instance, 1 metric |
| `store_links` | links are the latest ones seen, link deletion and link details under RPC failures, any delivery | 3 collections, 1 machine, 1 instance, 2 peers |
| `store_in_order` | in-order delivery implements `LiveTopology` | 3 collections, 2 machines, 1 instance, 1 peer |
| `store_stale` (violation) | "a stale snapshot must not overwrite newer current state" | as `store_activity` |
| `store_direct_latency` (violation) | a direct link shows a connection's round trip | 3 collections, 1 peer |
| `session_gateway` | pool invariants; dead sessions leave, replaced ones stop | 3 tunnels, 2 machines |
| `collector` | disjoint collections, fresh and monotone answers, error-free means complete, every call returns | 2 callers, 2 machines, 1 task slot, 2 collections, clock to 2 |
| `retention` | nothing young lost, duplicates recognised, thorough cleanups, what expires goes | 2 collections, 2 cleaners, batches of 1, 1 failure |
| `login_guard` | login budget, session lifetime | 2 addresses, 1 bucket, burst 2, clock to 8 |
| `console` | paging is exact, no page older than its header, loading ends, the selected filter prevails | 3 machines or an empty database, pages of 2, 2 requests in flight, 2 collections, 3 pages |
| `view` | no stale picture, no ghost drag, graph, panel and cards agree, drawing settles, a drag holds its node, or nothing is fixed once a rebuild replaced it | 3 records of 2 machines with a shared peer, 2 pointers, 2 ticks |
| `controllers` | migrations once, commits once, newest observation wins, explained inactivity, honest status, clean exit, nobody stuck | 2 processes of 2 builds, 2 machines, 3 collections, 2 migrations |

*Bounds.* Every property of the store relates at most two earlier snapshots to
one being ingested (a row is what one snapshot left, marked by another), so three
collections reach every case; two machines are needed for a missing machine, a
moved instance and a clone. Collection `k` runs from `2k` to `2k+1`, so windows
are disjoint as the collector's are; observation times vary inside the window
only where two machines list one instance. In `store_activity` the last collection
is always a complete one (it may still be delivered first); in `store_in_order`
only the second may be incomplete. `published` is refined by the run table, so a
committed snapshot can only be explained by the publication of that very snapshot. Three tunnels are needed for a
session that replaces one that is itself still evicting a third. `collector` has
a time to live of 1 and a clock to 2, enough for a snapshot to expire and be
replaced; one slot for two machines makes one of them wait for the other's task.
`console` needs three machines for two pages of two with a boundary that a machine
can leave or join, two requests for an overlap, and three pages for a list that an
overlapping answer disturbs. Its second collection is committed in order or late, and on
the empty database it is the first run. `view` has two records of one machine that differ in a
metric, as a list with a repeated machine does, and two pointers for a drag that
another pointer takes over. `controllers` has two processes, the second of a newer
build whose migration alters the table the first ingests into, or whose first file
was changed after it had been applied; its three collections list two machines, none,
and both again, so that observing and marking overlap in both orders; only one process
gets API requests. Either process may instead be the place of a transaction that the
other abandoned.
`MaxCollections`, `MaxNow`, `MaxFailures` and `MaxRestarts` bound the counters; the
store has no counter. Two collections and batches of one make both a full and a
short batch happen while two cleaners compete; the burst, refill and sweep times
of `login_guard` are the smallest with `burst * refill <= limiterSweepAfter`, and
its clock runs long enough for a bucket to be swept and emptied again. Its key is
generated at every start; that sessions also end in time under a configured key is the
theorem's, which holds for both.

*Deadlock* is checked for the store, retention, login, console and view runs. It is
off where the system may really stop: all tunnels closed, all collections used up,
all processes gone.

*Fairness.* Weak fairness of the steps a task takes by itself: the Tokio runtime
polls a task whose await is ready, timers fire, and the session task wakes every
second. No client has to send a heartbeat, disconnect, answer an RPC or call
again, and no shutdown has to come. For the cleaners, the clock goes on, the ticker
fires and statements end; only `MaxFailures` of them fail. In the console every
request ends, because the server's write timeout closes what it has not answered;
the refresh timer fires whatever is in flight, so that it finds no free slot is the
model's bound, and strong fairness takes the bound back. The browser keeps calling
frames and React runs a pending effect. In `Controllers` an attempt ends by its
deadline, unblocked statements and migration steps end, shutdown has a timeout, the
database notices a closed connection; PostgreSQL's lock queue is first come, first
served. No user has to do anything, nobody has to start, stop or crash.

## 4. Where code and documentation differ

* `store_stale`: `docs/AGENT_HANDOFF.md:315` and `docs/controller-code.zh-CN.md:92`
  promise that a stale snapshot never overwrites newer current state. Marking a
  row inactive advances only `last_collection_completed_at`, while the upserts
  compare `last_observed_at` first; a late, earlier-completed snapshot revives
  the row. `FreshCommitConverges` shows that the next fresh snapshot repairs it.
* `store_direct_latency`: `docs/AGENT_HANDOFF.md:296` defines the latency of direct
  and relayed links. When a relayed link turns direct while `list_peers` fails,
  the old path latency stays in the now direct row.

Observed without a run of its own: the comment at `utils.js:43` places yellow at
50 ms, the formula at 100 ms (colours are not modelled); overlapping load-more and
refresh leave repeated or foreign rows in the list until the next refresh
(`PagingIsExact` speaks of undisturbed lists, `PanelAgreesWithGraph` of disturbed
ones too); the marking of missing machines does not find a row that a concurrent
transaction has yet to commit, which the next complete snapshot marks
(`InactiveIsExplained` is only one direction for that reason); two ingestions can lock
machine rows in opposite orders, PostgreSQL ends one, and the next poll fetches whatever
the gateway has then, which no property requires to be the same collection.

## 5. Proofs

Every safety property that a passing run checks is also a theorem, invariants and
action properties alike, and so is the refinement of `LiveTopology`; of the eight
liveness properties four are theorems, and of the others the parts that need no
induction (see *Liveness* below). All theorems
hold for every value of the constants, under the named assumptions of the modules:

* machine ids are comparable (naturals; finitely many in the console and among
  several controllers), and snapshots, histories, lists and initial tables have
  their shape;
* the pool of the collector and the runs of retention's tables are finite sets, and
  so are the links of a row the console shows;
* `None` is none of the values it stands in for;
* the page limit is positive (`api.go` refuses others), `AdmissionRequired` is Boolean;
* login guard: burst, refill, lifetime and second are positive, and a bucket fills up
  before it is swept (8 * 30 s against 30 min in the code);
* migrations: the files of a build are executed in the order of their names, and
  builds that meet on one database agree on the names as far as both go — a release
  only adds files at the end (`docs/current-deployment-guide.zh-CN.md:709`). Contents
  may differ. Without it a build that inserts an earlier name would have it applied
  late, and only the order in `MigrationsHappenOnce` would be lost.

*SessionGatewayProofs.* `IInv` strengthens the pool invariants with what the
tasks know: a key is the stored heartbeat's id, a notified session has a stored
heartbeat on an encrypted tunnel, a task has a previous session exactly while it
evicts. `PooledSessionsAreIdentified` is not inductive without the first two,
`NoOrphanSession` not without the third. `LateDisconnectIsHarmless` is the action
property that follows from it.

*TopologyStoreProofs.* `TxInv` (type correctness, an idle store's `work` is `db`,
the open transaction adds exactly its own run) gives `TypeCorrect` and is what the
other invariants rest on.
`FreshConverges` needs more: `RowsBounded` (a row's two times are bounded by the
completion of some ingested run, which survives marking although marking moves
only one of them) makes every guard of a fresh transaction true, and
`FreshProgress` says of each row, in the middle of a fresh transaction, that it is
what the machines done so far say or what was committed before. The commit of a
complete snapshot then leaves active exactly what the snapshot lists, save
instances whose machine's list could not be read.

`RowsAreLatest` and `SamplesMatchRuns` speak of committed tables only. Their
strengthening `AllLatest(t, x)` speaks of any tables `t` in which the runs, of the
open transaction `x` only the machines done, are reflected: it holds of `db` with no
transaction and of `work` with the open one, and a commit turns the second into the
first. `LinkRowsAreLatest` has a strengthening of the same form, `AllLinksLatest(t, x)`.
Links are deleted, so it says of every sighting of a link that the row is at least as
late or that a later sighting had routes without it; a machine of the snapshot adds
sightings (`MachineSightings`), and each of its statements, upsert and stale-peer
deletion, is shown to account for them. `ErrorsNeverErase` compares two commits, so `KeptSoFar` says of the open
transaction what it has kept of `db`: an instance that became inactive was on a
machine whose list was read, a link that went had its routes read.
`DetailsSurviveFailure` is the same with `DetailsSoFar`: links whose details were
read are good until the instance's only host is done, and then good or gone. The
proof showed that this needs the instance to be on one machine of the snapshot: when
a cloned configuration puts one instance id on two machines, the stale-peer deletion
of one may delete a link that the other, whose `list_peers` failed, inserts again
without details. `Cloned` makes that exception explicit.

`Implements` is the refinement. `LiveInv` says that a snapshot that was fresh when its
transaction began stays fresh (deliveries are in order), that link times are bounded
like row times (`LinksBounded`), and of each link, in the middle of a transaction,
that it is what its host's view and the links before say (`LinkProgress`). A step
inside a transaction and a rollback change nothing a reader sees; a commit maps to
`Publish`, shown for activity (`CommitOnline`, from `FreshConverges`), for hosts
(`CommitHosts`) and for links (`CommitLinks`) separately.

*TelemetryCollectorProofs.* `Flight` is the single flight: ids are drawn in order, only
the last may be unfinished, the last stored one is the cached one. With it a new
collection can only be drawn when the cached one has expired, which gives `InOrder`
and so `CollectionsAreDisjoint`. `Sound` follows a collection through its stages: every
target has a task, waits for one, has answered, or there is an error, and without a
task nobody waits — a full task set is never empty — which gives
`ErrorFreeMeansComplete`. `Served` relates what a caller asked for and when to the
collection it waits for or was given; `AnswersAreFresh` and `AnswersNeverRegress`
follow.

*RetentionProofs.* `Recognisable` says what is left of a payload, or of its digest, at
any moment, and `Expiring` that a batch selected under a cutoff is still expired
under it when the statement applies it, since times and digests never change: they
give `DuplicatesAreRecognised` and `NothingYoungIsLost`. `CleanupIsThorough` needs the
batches: what is due and not in the batch selected is only left if the batch is full,
by cardinality, so a short batch is the last one.

*LoginGuardProofs.* `FailuresAreBounded` is not inductive: a refund or a sweep would
make tokens out of nothing. `BudgetIsConserved` adds what is left in the bucket to
what was spent; a sweep keeps it because a bucket idle for that long is full
(`SweepIsHarmless`), a refund because the cap can only lose tokens. `SessionLifetime`
needs `Genuine`: a token's expiry is that of its issue, its key is at most the current
one, and with a generated key a token of the current key is younger than the process.
`LaterSeconds` has the arithmetic of rounding to seconds, from quotient and remainder.

*ControllersProofs.* What overlapping ingestions leave behind does not depend on the
order of their commits. `KeysAreHeld` (an open transaction's run is committed by
nobody and held by nobody else) gives `CommittedOnce`.
`RowsAreHeld` (a row version is written by one open transaction at most) makes
`WritesAreCurrent` inductive: no commit of another changes a row under a version
already written, so the version is still what its statement would write now, and
the commit keeps `NewestObservationWins` and `InactiveIsExplained`.
`ListedAreWritten` is needed for the former, since a commit must have upserted every
machine its collection lists. `ProcInv` relates the phase of a process to what it
holds and reports, and gives `ExitIsClean` and `StatusIsHonest`. For
`MigrationsHappenOnce`, `LedgerOK` says that the ledger is an initial part of the files
there are, each with some build's contents; `Migrating` is the advisory lock, and says
that an open migration has executed exactly the files of its build that follow the
ledger, so that the next one is the first missing (`MissingFiles`); `Migrated` says
that whoever works has had all its files applied, which later commits of others cannot
undo. A transaction that outlives its attempt moves to another place with its key, its
locks and its writes (`DataMoved`).

*TopologyConsoleProofs.* The lemmas on the page query come first: a page is a cut of
the hits, and the cursor is its greatest id, so the next page starts right after it
(`PagesAreCut`, from the least and greatest elements of sets of naturals).
`PagingIsExact` then needs `Exact` of the list held (pages ascend, stay within the
cursor and lack nobody who matched all the while) and `Continues` of the requests in flight: an append that
nothing disturbed still continues the list the machines came from.
`HeaderIsNeverAhead` needs the order in which a request reads, and that the run a header
names was committed before, in order or late.

*TopologyViewProofs.* `PaintIsUpToDate` is inductive by itself. `NoGhostDrag` is not:
`Captured` adds that whoever drags or pans has a captured pointer, and that a
captured pointer is down. `DragHoldsItsNode` needs that drawn elements that are live show
the current nodes, and that nothing is fixed between a rebuild and its drawing
(`DragInv`). `PanelAgreesWithGraph` is a fact about the functions once the
invariant says that the nodes are the graph of the searched list (`ViewInv`): both
`buildGraph` and `resolveSelection` give a key the first row that has it (`GraphNodes`,
`Resolves`), and the cards count the domain of a map onto the drawn nodes that is
one-to-one if nothing is listed twice (`MachinesCounted`, `PeersCounted`).

The type invariants of the store, the login guard and the console are proved; those
of the session gateway, the collector, retention and the controllers are part of the
inductive invariants.

*Liveness.* The provers do not compute ENABLED. The liveness theorems therefore have
the form `Spec /\ []H => Property`, where `H` says no more than that a fair step is
enabled where its guards hold: `ReadyTasksCanStep` (session gateway, collector),
`RequestsCanStep` (console), `BrowserCanStep` (view), `ReadyStepsCanBeTaken`
(controllers). `H` is true in every reachable state, since each of these actions assigns
every variable and changes one; TLC confirms it as an invariant on the instances of the runs,
with a module that extends the MC module and the proofs. The rest is proved: that the
guards come true and stay true, which steps others may take in between, and what the
step achieves. Each proof follows one process, task or request through its stages;
fairness is stated per process (`TaskFairness`, `CollectionFairness`, `ClientFairness`,
`RequestFairness`, `ProcessFairness`), so that it can be used for the one at hand.

* `DeadLeave`, `ReplacedStop`: a dead session's task evicts and then unregisters; a
  session that lost its place and still runs has, by `NoOrphanSession`, a task that has
  yet to stop it, and other tasks cannot take that away (`DeadStep`, `StopsStep`).
* `CallsReturn`: a collection's stages are followed one by one. The pool of tasks may
  be empty or full: `FirstTasksExist` says that a collection that begins finds its
  first tasks. Whoever waits is woken by the collection it waits for, and then returns.
* `LoadingAlwaysEnds`: loading is never on with nothing in flight (`LoadingIsServed`),
  and a request that ends switches it off, also one that fails.
* `TransactionsDoEnd`, `StoppedEnd`: an open transaction belongs to an attempt with a
  deadline or to a closed connection, which the database will notice, and a
  controller that closes its pool begins neither a transaction nor a query
  (`EndingStep`), so that what it waits for can only become less.

*Only model-checked.* What is left of four liveness properties needs an induction over
data or over a finite set, which is out of the provers' reach:

* `FilterPrevails`: proved are `LateRequestsDieOut`, for each request, and
  `AnswersPrevail`, from the moment when nothing late is in flight; that what holds in
  the end of each request holds in the end of all of them is the step between the two.
* `Settles`: `PictureIsDrawn` is all of it but the decay of alpha to zero.
* `NeverStuck`: proved are that there is no circular wait (`WaitsEnd`), that the
  transactions a migration waits for end, and that stopping ends once migrations leave the runs alone. That a
  migration comes to the end of its files, and whoever starts gets its turn, counts
  files and controllers.
* `WhatExpiresGoes`: a cleaner's loop takes as many rounds as there are batches. What
  one round and one cleanup achieve is proved (`CleanupIsThorough`).

The hypotheses on ENABLED are model-checked too, as said. The two properties that are
expected to fail are shown by counterexample.

## 6. Not modelled, and the plan

* Gateway process and its HTTP API: configuration, routing and serialisation around
  the collector; its only state is the collector's.
* Operations script, CI, build label: external tools and files.
* HTML, styles, coordinates, colours, formatting, the static asset handler, password
  hashing: layout or primitives without protocol state.
* The error audit table, which ingestion only appends to, and the descriptive
  columns of the tables, which are copied together.
* The cleaner beside several ingestions at statement level: `Retention` has ingestion
  as one step, `Controllers` has no cleaner; they touch different rows or only
  columns the other does not read.
* The wall clock stepping back: `telemetry.rs` saturates the age of the cache at
  zero; the models' clocks do not go back.

What a later version could add: the four inductions named in section 5, with a prover
that has them, and the cleaner as one more process of `Controllers`.
