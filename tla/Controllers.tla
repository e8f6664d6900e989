---------------------------- MODULE Controllers -----------------------------
(***************************************************************************)
(* Controller processes on one database: migration at the start, the       *)
(* poller's fetch and ingestion at statement level under READ COMMITTED,   *)
(* an API request as another user of the connection pool, shutdown, and    *)
(* crashes that leave a transaction behind in the database. The cleaner is *)
(* in Retention; for shutdown it is like the worker, one more goroutine    *)
(* that the same context cancels and the same timeout waits for.           *)
(*                                                                         *)
(* A controller here is one incarnation of the process: it starts at most  *)
(* once, and a restart is another one starting. One that has not started   *)
(* may instead lend its place to a connection that another abandoned, see  *)
(* AttemptLingers: to the database that is a process that died.            *)
(*                                                                         *)
(* Of the tables only runs and machines are represented (TopologyStore has *)
(* them all, one transaction at a time). Collection k completed at time k  *)
(* and observed its machines after collection k - 1 (TelemetryCollector).  *)
(***************************************************************************)
EXTENDS Naturals, Sequences, FiniteSets

CONSTANTS
  Controllers,
  Serving,        \* the controllers that get API requests
  Machines,       \* machine ids, in the order of snapshots
  Histories,      \* what the collections of the gateway list, in order
  Builds,         \* the migrations of each controller's build, as sequences
                  \* of versions with their checksums
  Altering,       \* the versions that alter the table of runs
  None

ASSUME MachinesAssumption == Machines \subseteq Nat /\ IsFiniteSet(Machines)
ASSUME HistoriesAssumption ==
  \A h \in Histories :
    h \in Seq([listed : SUBSET Machines, complete : BOOLEAN]) /\ h # <<>>
(* Files are executed in the order of their names, here numbers, and named *)
(* with their checksum. A release only adds files, after those there are:  *)
(* docs/current-deployment-guide.zh-CN.md:709. Contents may differ.        *)
ASSUME BuildsAssumption ==
  \A b \in Builds :
    /\ b \in [Controllers -> Seq(Nat \X STRING)]
    /\ \A c \in Controllers : \A i, j \in DOMAIN b[c] : i < j => b[c][i][1] < b[c][j][1]
    /\ \A c, d \in Controllers :
         \A i \in DOMAIN b[c] \cap DOMAIN b[d] : b[c][i][1] = b[d][i][1]
ASSUME NoneAssumption ==
  None \notin [observed : Nat, completed : Nat, active : BOOLEAN] \cup Seq(Nat)

VARIABLES
  reports,   \* what each collection of the gateway lists
  current,   \* the gateway's latest collection
  embedded,  \* the migrations of each controller's build, one of Builds
  ledger,    \* schema_migrations: the files applied, in order
  runs,      \* telemetry_collection_runs
  rows,      \* machines
  mtx,       \* the files executed in c's open migration transaction, or None
  tx,        \* c's ingestion transaction, see Transaction
  proc,      \* where c's run() is
  work,      \* the collection that c's worker is ingesting, or None
  status,    \* the worker's last_collection_id: its last success
  request,   \* the API request that c is answering
  failed,    \* run() will return an error
  commits    \* history: how often collection k was committed

given == <<reports, current, embedded>>
server == <<ledger, runs, rows, mtx, tx, commits>>
process == <<proc, work, status, request, failed>>
vars == <<given, server, process>>

Ids == DOMAIN reports

Row == [observed : Ids, completed : Ids, active : BOOLEAN]
Stages == {"none", "upsert", "mark"}

(* todo: the machines still to be upserted, or found to be marked. writes: *)
(* the row versions written or locked, which nobody else sees or changes.  *)
Transaction == [stage : Stages, todo : SUBSET Machines, coll : Ids,
                writes : [Machines -> Row \cup {None}]]

NoTransaction == [stage |-> "none", todo |-> {}, coll |-> 1,
                  writes |-> [m \in Machines |-> None]]

Alive == {"locking", "migrating", "running", "stopping", "joining", "closing"}

TypeOK ==
  /\ reports \in Histories /\ current \in Ids /\ embedded \in Builds
  /\ ledger \in Seq(UNION {{embedded[c][i] : i \in DOMAIN embedded[c]} : c \in Controllers})
  /\ runs \subseteq 1 .. current
  /\ rows \in [Machines -> Row \cup {None}]
  /\ \A c \in Controllers : mtx[c] = None \/ mtx[c] \in Seq(DOMAIN embedded[c])
  /\ tx \in [Controllers -> Transaction]
  /\ proc \in [Controllers -> Alive \cup {"new", "crashed", "gone"}]
  /\ work \in [Controllers -> Ids \cup {None}]
  /\ status \in [Controllers -> Ids \cup {None}]
  /\ request \in [Controllers -> {"none", "open", "query"}]
  /\ failed \in [Controllers -> BOOLEAN]
  /\ commits \in [Ids -> Nat]

Init ==
  /\ reports \in Histories /\ current = 1 /\ embedded \in Builds
  /\ ledger = <<>> /\ runs = {}
  /\ rows = [m \in Machines |-> None]
  /\ mtx = [c \in Controllers |-> None]
  /\ tx = [c \in Controllers |-> NoTransaction]
  /\ proc = [c \in Controllers |-> "new"]
  /\ work = [c \in Controllers |-> None]
  /\ status = [c \in Controllers |-> None]
  /\ request = [c \in Controllers |-> "none"]
  /\ failed = [c \in Controllers |-> FALSE]
  /\ commits = [k \in Ids |-> 0]

(* The gateway finishes another collection.                                *)
NewCollection ==
  /\ current < Len(reports)
  /\ current' = current + 1
  /\ UNCHANGED <<reports, embedded, server, process>>

-----------------------------------------------------------------------------
(* Start and migration: one transaction under an advisory lock.            *)

Goto(c, stage) == proc' = [proc EXCEPT ![c] = stage]

Open(c) ==
  /\ proc[c] = "new"
  /\ Goto(c, "locking")
  /\ UNCHANGED <<given, server, work, status, request, failed>>

(* Mutant: no advisory lock is taken.                                      *)
MigrateLockless(c) ==
  /\ proc[c] = "locking"
  /\ Goto(c, "migrating")
  /\ mtx' = [mtx EXCEPT ![c] = <<>>]
  /\ UNCHANGED <<given, ledger, runs, rows, tx, commits, work, status, request, failed>>

MigrateLock(c) ==
  /\ proc[c] = "locking"
  /\ \A d \in Controllers : mtx[d] = None
  /\ Goto(c, "migrating")
  /\ mtx' = [mtx EXCEPT ![c] = <<>>]
  /\ UNCHANGED <<given, ledger, runs, rows, tx, commits, work, status, request, failed>>

Recorded == {ledger[i] : i \in DOMAIN ledger}

(* The files of c's build that neither the ledger nor c's transaction has, *)
(* and those whose contents are not what the ledger says was applied.      *)
Missing(c) ==
  {i \in DOMAIN embedded[c] :
     /\ \A f \in Recorded : f[1] # embedded[c][i][1]
     /\ \A j \in DOMAIN mtx[c] : mtx[c][j] # i}

Changed(c) ==
  {i \in DOMAIN embedded[c] :
     \E f \in Recorded : f[1] = embedded[c][i][1] /\ f[2] # embedded[c][i][2]}

Executed(c, versions) ==
  mtx[c] # None /\ \E j \in DOMAIN mtx[c] : embedded[c][mtx[c][j]][1] \in versions

NextFile(c) == CHOOSE i \in Missing(c) : \A j \in Missing(c) : i <= j

(* ALTER TABLE waits for the transactions that have used the table of      *)
(* runs, and whoever comes later waits for it: the lock queue is first     *)
(* come, first served.                                                     *)
UsesRuns(c) == tx[c].stage # "none"

Alters(c) ==
  /\ proc[c] = "migrating"
  /\ Missing(c) # {} /\ embedded[c][NextFile(c)][1] \in Altering

RunsLocked == \E d \in Controllers : Executed(d, Altering) \/ Alters(d)

MigrateFile(c) ==
  /\ proc[c] = "migrating"
  /\ Changed(c) = {} /\ Missing(c) # {}
  /\ Alters(c) => \A d \in Controllers : ~UsesRuns(d)
  /\ mtx' = [mtx EXCEPT ![c] = Append(@, NextFile(c))]
  /\ UNCHANGED <<given, ledger, runs, rows, tx, commits, process>>

(* The commit may be reported as failed all the same.                      *)
MigrateCommit(c) ==
  /\ proc[c] = "migrating"
  /\ Missing(c) = {} /\ Changed(c) = {}
  /\ ledger' = ledger \o [j \in DOMAIN mtx[c] |-> embedded[c][mtx[c][j]]]
  /\ mtx' = [mtx EXCEPT ![c] = None]
  /\ \/ Goto(c, "running") /\ UNCHANGED failed
     \/ Goto(c, "closing") /\ failed' = [failed EXCEPT ![c] = TRUE]
  /\ UNCHANGED <<given, runs, rows, tx, commits, work, status, request>>

(* A statement fails, a checksum differs, or the signal arrives.           *)
MigrateFail(c) ==
  /\ proc[c] \in {"locking", "migrating"}
  /\ mtx' = [mtx EXCEPT ![c] = None]
  /\ Goto(c, "closing")
  /\ failed' = [failed EXCEPT ![c] = TRUE]
  /\ UNCHANGED <<given, ledger, runs, rows, tx, commits, work, status, request>>

-----------------------------------------------------------------------------
(* The worker: one attempt under one deadline.                             *)

(* The gateway answers with its latest collection, cached or not; it may   *)
(* be superseded before it is ingested. A fetch that fails changes nothing *)
(* but the last error and the failure count, which are left out.           *)
FetchTopology(c) ==
  /\ proc[c] = "running"
  /\ work[c] = None
  /\ work' = [work EXCEPT ![c] = current]
  /\ UNCHANGED <<given, server, proc, status, request, failed>>

(* BeginTx and the first statement, INSERT ... ON CONFLICT DO NOTHING. The *)
(* pool refuses once it is being closed.                                   *)
Begins(c) ==
  /\ work[c] # None /\ tx[c].stage = "none"
  /\ proc[c] # "closing"
  /\ ~RunsLocked

Inserted(k) ==
  [NoTransaction EXCEPT !.stage = "upsert", !.coll = k, !.todo = reports[k].listed]

(* Mutant: the run row is looked up before it is inserted.                 *)
InsertRunUnchecked(c) ==
  /\ Begins(c)
  /\ work[c] \notin runs
  /\ tx' = [tx EXCEPT ![c] = Inserted(work[c])]
  /\ UNCHANGED <<given, ledger, runs, rows, mtx, commits, process>>

(* It waits for a transaction that has inserted the same key and not       *)
(* ended, and inserts the run if there is none then.                       *)
InsertRun(c) ==
  /\ Begins(c)
  /\ work[c] \notin runs
  /\ \A d \in Controllers \ {c} : tx[d].stage = "none" \/ tx[d].coll # work[c]
  /\ tx' = [tx EXCEPT ![c] = Inserted(work[c])]
  /\ UNCHANGED <<given, ledger, runs, rows, mtx, commits, process>>

Unlocked(c, m) == \A d \in Controllers \ {c} : tx[d].writes[m] = None

(* Mutant: the guard of the update is dropped.                             *)
NewerAlways(row, k) == TRUE

(* The WHERE of the upsert, on the row version locked.                     *)
Newer(row, k) ==
  \/ row = None
  \/ row.observed < k
  \/ row.observed = k /\ row.completed < k

(* Machines are upserted in the order of the snapshot; a row locked by     *)
(* another transaction is waited for and read anew.                        *)
upsertMachine(c) ==
  /\ work[c] # None /\ tx[c].stage = "upsert"
  /\ \E m \in tx[c].todo :
       /\ \A n \in tx[c].todo : m <= n
       /\ Unlocked(c, m)
       /\ tx' = [tx EXCEPT ![c].todo = @ \ {m}, ![c].writes[m] =
            IF Newer(rows[m], tx[c].coll)
            THEN [observed |-> tx[c].coll, completed |-> tx[c].coll, active |-> TRUE]
            ELSE rows[m]]
  /\ UNCHANGED <<given, ledger, runs, rows, mtx, commits, process>>

(* The WHERE of the marking.                                               *)
Absent(row, k) == row # None /\ row.active /\ row.completed < k

(* The marking finds its rows in what is committed when it starts ...      *)
markMissingMachinesInactive(c) ==
  /\ work[c] # None /\ tx[c].stage = "upsert" /\ tx[c].todo = {}
  /\ LET k == tx[c].coll
     IN  /\ reports[k].complete
         /\ tx' = [tx EXCEPT ![c].stage = "mark",
                     ![c].todo = {m \in Machines \ reports[k].listed : Absent(rows[m], k)}]
  /\ UNCHANGED <<given, ledger, runs, rows, mtx, commits, process>>

Marked(row, k) == [row EXCEPT !.active = FALSE, !.completed = k]

(* Mutant: the rows found are marked as they were found.                   *)
MarkRowBlindly(c) ==
  /\ work[c] # None /\ tx[c].stage = "mark"
  /\ \E m \in tx[c].todo :
       /\ Unlocked(c, m)
       /\ tx' = [tx EXCEPT ![c].todo = @ \ {m}, ![c].writes[m] = Marked(rows[m], tx[c].coll)]
  /\ UNCHANGED <<given, ledger, runs, rows, mtx, commits, process>>

(* ... locks each of them, in any order, and looks at it again.            *)
MarkRow(c) ==
  /\ work[c] # None /\ tx[c].stage = "mark"
  /\ \E m \in tx[c].todo :
       /\ Unlocked(c, m)
       /\ tx' = [tx EXCEPT ![c].todo = @ \ {m}, ![c].writes[m] =
            IF Absent(rows[m], tx[c].coll) THEN Marked(rows[m], tx[c].coll) ELSE rows[m]]
  /\ UNCHANGED <<given, ledger, runs, rows, mtx, commits, process>>

Finished(c) ==
  /\ tx[c].todo = {}
  /\ tx[c].stage = "mark" \/ (tx[c].stage = "upsert" /\ ~reports[tx[c].coll].complete)

Install(c) ==
  /\ Finished(c)
  /\ runs' = runs \cup {tx[c].coll}
  /\ rows' = [m \in Machines |-> IF tx[c].writes[m] = None THEN rows[m] ELSE tx[c].writes[m]]
  /\ commits' = [commits EXCEPT ![tx[c].coll] = @ + 1]

(* The attempt ends with success, or with recordFailure, which keeps the   *)
(* last success in the status.                                             *)
Succeed(c) == status' = [status EXCEPT ![c] = work[c]]

recordFailure == UNCHANGED status

EndAttempt(c) ==
  /\ tx' = [tx EXCEPT ![c] = NoTransaction]
  /\ work' = [work EXCEPT ![c] = None]

(* The commit may have been applied although it is reported as failed.     *)
Commit(c) ==
  /\ work[c] # None
  /\ Install(c)
  /\ EndAttempt(c)
  /\ Succeed(c) \/ recordFailure
  /\ UNCHANGED <<given, ledger, mtx, proc, request, failed>>

(* The run is there: its payload, which is compared, is the same, and the  *)
(* transaction has nothing to commit.                                      *)
Duplicate(c) ==
  /\ Begins(c)
  /\ work[c] \in runs
  /\ EndAttempt(c)
  /\ Succeed(c)
  /\ UNCHANGED <<given, ledger, runs, rows, mtx, commits, proc, request, failed>>

(* Mutant: an error of the ingestion is taken for success.                 *)
AttemptFailUnnoticed(c) ==
  /\ work[c] # None
  /\ EndAttempt(c)
  /\ Succeed(c)
  /\ UNCHANGED <<given, ledger, runs, rows, mtx, commits, proc, request, failed>>

(* The deadline, a statement's error, a deadlock victim, the cancellation  *)
(* at shutdown, or a closed pool.                                          *)
AttemptFail(c) ==
  /\ work[c] # None
  /\ EndAttempt(c)
  /\ recordFailure
  /\ UNCHANGED <<given, ledger, runs, rows, mtx, commits, proc, request, failed>>

(* The deadline may find a statement or the commit under way: the rollback *)
(* has no time left and only closes the connection, and the transaction    *)
(* stays in the database, in the place of a, while c goes on. (A failed    *)
(* migration ends the process: what it leaves is that of a Crash.)         *)
AttemptLingers(c, a) ==
  /\ work[c] # None /\ UsesRuns(c)
  /\ proc[a] = "new"
  /\ tx' = [tx EXCEPT ![a] = tx[c], ![c] = NoTransaction]
  /\ Goto(a, "crashed")
  /\ work' = [work EXCEPT ![c] = None]
  /\ recordFailure
  /\ UNCHANGED <<given, ledger, runs, rows, mtx, commits, request, failed>>

-----------------------------------------------------------------------------
(* An API request.                                                         *)

(* A request is accepted until the server is shut down.                    *)
Accept(c) ==
  /\ c \in Serving
  /\ proc[c] = "running"
  /\ request[c] = "none"
  /\ request' = [request EXCEPT ![c] = "open"]
  /\ UNCHANGED <<given, server, proc, work, status, failed>>

(* One of its queries takes a connection; the pool refuses once it is      *)
(* being closed.                                                           *)
Query(c) ==
  /\ request[c] = "open"
  /\ proc[c] # "closing"
  /\ request' = [request EXCEPT ![c] = "query"]
  /\ UNCHANGED <<given, server, proc, work, status, failed>>

(* The query ends; one that a migration blocks has to wait.                *)
QueryEnds(c) ==
  /\ request[c] = "query"
  /\ ~RunsLocked
  /\ request' = [request EXCEPT ![c] = "open"]
  /\ UNCHANGED <<given, server, proc, work, status, failed>>

(* The request is answered, with an error if its query failed.             *)
Answer(c) ==
  /\ request[c] = "open"
  /\ request' = [request EXCEPT ![c] = "none"]
  /\ UNCHANGED <<given, server, proc, work, status, failed>>

-----------------------------------------------------------------------------
(* The end of run().                                                       *)

(* A signal, or the listener's error.                                      *)
Stop(c) ==
  /\ proc[c] = "running"
  /\ Goto(c, "stopping")
  /\ \E error \in BOOLEAN : failed' = [failed EXCEPT ![c] = @ \/ error]
  /\ UNCHANGED <<given, server, work, status, request>>

(* Mutant: the server is not waited for.                                   *)
ShutdownAtOnce(c) ==
  /\ proc[c] = "stopping"
  /\ Goto(c, "joining")
  /\ UNCHANGED <<given, server, work, status, request, failed>>

(* Mutant: the server is waited for without a timeout.                     *)
ShutdownPatient(c) ==
  /\ proc[c] = "stopping"
  /\ request[c] = "none"
  /\ Goto(c, "joining")
  /\ UNCHANGED <<given, server, work, status, request, failed>>

(* server.Shutdown returns when all requests are answered, or in time.     *)
Shutdown(c) ==
  /\ proc[c] = "stopping"
  /\ Goto(c, "joining")
  /\ \E late \in BOOLEAN :
       /\ late \/ request[c] = "none"
       /\ failed' = [failed EXCEPT ![c] = @ \/ late]
  /\ UNCHANGED <<given, server, work, status, request>>

(* The worker returns, or the time is over.                                *)
Join(c) ==
  /\ proc[c] = "joining"
  /\ Goto(c, "closing")
  /\ \E late \in BOOLEAN :
       /\ late \/ work[c] = None
       /\ failed' = [failed EXCEPT ![c] = @ \/ late]
  /\ UNCHANGED <<given, server, work, status, request>>

(* What the process had in memory goes with it.                            *)
Gone(c) ==
  /\ work' = [work EXCEPT ![c] = None]
  /\ status' = [status EXCEPT ![c] = None]
  /\ request' = [request EXCEPT ![c] = "none"]
  /\ failed' = [failed EXCEPT ![c] = FALSE]

(* pool.Close returns when every connection has come back.                 *)
Exit(c) ==
  /\ proc[c] = "closing"
  /\ tx[c].stage = "none" /\ request[c] # "query"
  /\ Goto(c, "gone")
  /\ Gone(c)
  /\ UNCHANGED <<given, server>>

(* The process dies; its transactions stay until the database notices.     *)
Crash(c) ==
  /\ proc[c] \in Alive
  /\ Goto(c, IF tx[c].stage = "none" /\ mtx[c] = None THEN "gone" ELSE "crashed")
  /\ Gone(c)
  /\ UNCHANGED <<given, server>>

(* The database ends what a dead process left, or completes the commit     *)
(* that was its last word.                                                 *)
BackendEnds(c) ==
  /\ proc[c] = "crashed"
  /\ Goto(c, "gone")
  /\ mtx' = [mtx EXCEPT ![c] = None]
  /\ tx' = [tx EXCEPT ![c] = NoTransaction]
  /\ Install(c) \/ UNCHANGED <<runs, rows, commits>>
  /\ UNCHANGED <<given, ledger, work, status, request, failed>>

Next ==
  \/ NewCollection
  \/ \E c \in Controllers :
       \/ Open(c) \/ MigrateLock(c) \/ MigrateFile(c) \/ MigrateCommit(c) \/ MigrateFail(c)
       \/ FetchTopology(c) \/ InsertRun(c) \/ upsertMachine(c)
       \/ markMissingMachinesInactive(c) \/ MarkRow(c) \/ Commit(c) \/ Duplicate(c)
       \/ AttemptFail(c) \/ \E a \in Controllers : AttemptLingers(c, a)
       \/ Accept(c) \/ Query(c) \/ QueryEnds(c) \/ Answer(c)
       \/ Stop(c) \/ Shutdown(c) \/ Join(c) \/ Exit(c) \/ Crash(c) \/ BackendEnds(c)

(* The goroutine of run(), or what the database does once it is dead.      *)
Main(c) ==
  \/ MigrateLock(c) \/ MigrateFile(c) \/ MigrateCommit(c)
  \/ Changed(c) # {} /\ MigrateFail(c)
  \/ Shutdown(c) \/ Join(c) \/ Exit(c) \/ BackendEnds(c)

(* Attempts have a deadline, statements that are not blocked end, shutdown *)
(* has a timeout, and the database notices closed connections.             *)
ProcessFairness(c) == WF_vars(Main(c)) /\ WF_vars(AttemptFail(c))
QueryFairness(c) == WF_vars(QueryEnds(c))

Fairness ==
  /\ \A c \in Controllers : ProcessFairness(c)
  /\ \A c \in Serving : QueryFairness(c)

Spec == Init /\ [][Next]_vars /\ Fairness
-----------------------------------------------------------------------------
(* However many controllers start at once and wherever they die, no file   *)
(* is executed twice, the files of a build are applied in its order, and a *)
(* worker only runs on a database that has all files of its build, as its  *)
(* build has them.                                                         *)
MigrationsHappenOnce ==
  /\ \A i, j \in DOMAIN ledger : i < j => ledger[i][1] < ledger[j][1]
  /\ \A c \in Controllers : work[c] # None =>
       {embedded[c][i] : i \in DOMAIN embedded[c]} \subseteq Recorded

(* A collection fetched by several controllers is committed by one of      *)
(* them, also when its acknowledgement is lost or its process died.        *)
CommittedOnce == \A k \in Ids : commits[k] = IF k \in runs THEN 1 ELSE 0

(* Whichever transactions overlap and in whatever order they commit, a row *)
(* holds the newest observation among the committed runs.                  *)
NewestObservationWins ==
  \A m \in Machines :
    LET seen == {k \in runs : m \in reports[k].listed}
    IN  IF rows[m] = None THEN seen = {}
        ELSE rows[m].observed \in seen /\ \A k \in seen : k <= rows[m].observed

(* A machine is inactive only if a committed, complete collection newer    *)
(* than its last observation did not list it.                              *)
InactiveIsExplained ==
  \A m \in Machines : rows[m] # None /\ ~rows[m].active =>
    \E k \in runs :
      k > rows[m].observed /\ reports[k].complete /\ m \notin reports[k].listed

(* What a controller reports as ingested or duplicate is in the database,  *)
(* though its transaction or another's on which it waited may have failed. *)
StatusIsHonest ==
  \A c \in Controllers : status[c] # None => status[c] \in runs

(* The pool is not closed under a request that is being answered, nor      *)
(* under an attempt of the worker, unless run() returns an error.          *)
ExitIsClean ==
  \A c \in Controllers :
    proc[c] = "closing" /\ ~failed[c] => request[c] = "none" /\ work[c] = None

(* Starting and stopping end. A controller that starts gets past the       *)
(* migrations or gives up, though others hold the advisory lock, ingest,   *)
(* or died while they held it. One that is told to stop ends: every wait   *)
(* has a timeout, and closing the pool waits only for statements that end, *)
(* although another controller's migration may be blocking them.           *)
NeverStuck ==
  \A c \in Controllers :
    proc[c] \notin {"new", "running", "gone"} ~> proc[c] \in {"running", "gone"}
=============================================================================
