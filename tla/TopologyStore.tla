---------------------------- MODULE TopologyStore ----------------------------
(***************************************************************************)
(* The controller's ingestion of topology snapshots (ingest/store.go) into *)
(* the telemetry tables. One ingestion is one database transaction: it     *)
(* works on `work`, a private copy of the committed tables `db`, machine   *)
(* by machine in the order the snapshot lists them, and either commits or  *)
(* leaves no trace. Snapshots may arrive in any order, repeatedly, or      *)
(* never: two controllers may poll one gateway, and a transaction whose    *)
(* commit was acknowledged too late has been recorded as a failure.        *)
(***************************************************************************)
EXTENDS TopologyContract

CONSTANT Snapshots   \* the snapshots the gateway may hand out

ASSUME SnapshotsAssumption == Snapshots \subseteq Snapshot

VARIABLES
  db,      \* the committed tables
  work,    \* the tables as the open transaction sees them
  tx,      \* the open transaction: its snapshot and the machines done
  result   \* what the last Ingest call returned

vars == <<db, work, tx, result>>

(* A row's observed_at and completed_at are last_observed_at and           *)
(* last_collection_completed_at; `source` is the collection the row's      *)
(* descriptive columns were copied from.                                   *)
MachineRow  == [observed_at : Nat, completed_at : Nat, active : BOOLEAN,
                source : Collections]
InstanceRow == [observed_at : Nat, completed_at : Nat, active : BOOLEAN,
                machine_id : Machines]
NodeRow     == [observed_at : Nat, completed_at : Nat, source : Collections]
(* `details` is the collection the loss rate, the traffic counters and the *)
(* tunnel protocols were copied from.                                      *)
LinkRow     == [observed_at : Nat, completed_at : Nat, direct : BOOLEAN,
                latency : Latency, details : Collections]

Tables ==
  [runs      : [Collections -> Snapshots \cup {None}],
   machines  : [Machines -> MachineRow \cup {None}],
   instances : [Instances -> InstanceRow \cup {None}],
   nodes     : [Instances -> NodeRow \cup {None}],
   links     : [Instances -> [Peers -> LinkRow \cup {None}]],
   samples   : SUBSET (Collections \X Instances \X Metrics)]

Transaction == [snapshot : Snapshots, done : SUBSET Machines]

ASSUME NoRowAssumption ==
  None \notin MachineRow \cup InstanceRow \cup NodeRow \cup LinkRow \cup Transaction

TypeOK ==
  /\ db \in Tables
  /\ work \in Tables
  /\ tx \in Transaction \cup {None}
  /\ result \in {"none", "ingested", "duplicate", "error"}

Init ==
  /\ db = [runs      |-> [c \in Collections |-> None],
           machines  |-> [m \in Machines |-> None],
           instances |-> [i \in Instances |-> None],
           nodes     |-> [i \in Instances |-> None],
           links     |-> [i \in Instances |-> [p \in Peers |-> None]],
           samples   |-> {}]
  /\ work = db
  /\ tx = None
  /\ result = "none"

-----------------------------------------------------------------------------
(* The statements of a transaction.                                        *)

(* Mutant: ON CONFLICT DO UPDATE without its WHERE clause.                 *)
SupersedesAlways(observed, completed, row) == TRUE

(* The condition of every ON CONFLICT ... DO UPDATE: there is no row yet,  *)
(* or the stored observation is older, ties broken by collection time.     *)
Supersedes(observed, completed, row) ==
  \/ row = None
  \/ row.observed_at < observed
  \/ row.observed_at = observed /\ row.completed_at < completed

upsertMachine(rows, s, m) ==
  IF Supersedes(s.machines[m].observed_at, s.completed_at, rows[m])
  THEN [rows EXCEPT ![m] = [observed_at  |-> s.machines[m].observed_at,
                            completed_at |-> s.completed_at,
                            active       |-> TRUE,
                            source       |-> s.collection_id]]
  ELSE rows

(* The instance rows after ingestInstance ran for each listed instance.    *)
upsertInstances(rows, s, m) ==
  [i \in Instances |->
     LET v == s.machines[m].instances[i] IN
     IF v # None /\ Supersedes(v.observed_at, s.completed_at, rows[i])
     THEN [observed_at  |-> v.observed_at,
           completed_at |-> s.completed_at,
           active       |-> TRUE,
           machine_id   |-> m]
     ELSE rows[i]]

upsertNodes(rows, s, m) ==
  [i \in Instances |->
     LET v == s.machines[m].instances[i] IN
     IF v # None /\ v.node /\ Supersedes(v.observed_at, s.completed_at, rows[i])
     THEN [observed_at  |-> v.observed_at,
           completed_at |-> s.completed_at,
           source       |-> s.collection_id]
     ELSE rows[i]]

(* Mutant: every column is overwritten, also when list_peers failed.       *)
upsertPeerBlindly(row, s, v, peer) ==
  IF Supersedes(v.observed_at, s.completed_at, row)
  THEN [observed_at  |-> v.observed_at,
        completed_at |-> s.completed_at,
        direct       |-> peer.direct,
        latency      |-> peer.latency,
        details      |-> s.collection_id]
  ELSE row

(* One peer link. When list_peers failed, a direct link keeps its stored   *)
(* latency and every link keeps its stored details.                        *)
upsertPeer(row, s, v, peer) ==
  LET detailsComplete == ~hasOperationError(v.errors, "list_peers") IN
  IF Supersedes(v.observed_at, s.completed_at, row)
  THEN [observed_at  |-> v.observed_at,
        completed_at |-> s.completed_at,
        direct       |-> peer.direct,
        latency      |-> IF row = None \/ detailsComplete \/ ~peer.direct
                         THEN peer.latency ELSE row.latency,
        details      |-> IF row = None \/ detailsComplete
                         THEN s.collection_id ELSE row.details]
  ELSE row

(* Mutant: a failed list_routes is taken for an empty one.                 *)
IsStalePeerUnchecked(row, s, v) ==
  row # None /\ Supersedes(v.observed_at, s.completed_at, row)

(* Mutant: links the instance does not route to go, however new they are.  *)
IsStalePeerOfAnyAge(row, s, v) ==
  ~hasOperationError(v.errors, "list_routes") /\ row # None

(* A link the instance no longer routes to is deleted, unless list_routes  *)
(* failed or the link was observed later.                                  *)
IsStalePeer(row, s, v) ==
  /\ ~hasOperationError(v.errors, "list_routes")
  /\ row # None
  /\ Supersedes(v.observed_at, s.completed_at, row)

ingestPeers(rows, s, m) ==
  [i \in Instances |->
     LET v == s.machines[m].instances[i] IN
     IF v = None THEN rows[i]
     ELSE [p \in Peers |->
             IF v.peers[p] # None THEN upsertPeer(rows[i][p], s, v, v.peers[p])
             ELSE IF IsStalePeer(rows[i][p], s, v) THEN None
             ELSE rows[i][p]]]

MetricKeys(s, m) ==
  {k \in {s.collection_id} \X Listed(s.machines[m]) \X Metrics :
     k[3] \in s.machines[m].instances[k[2]].metrics}

Deactivated(row, s) == [row EXCEPT !.active = FALSE, !.completed_at = s.completed_at]

(* Mutant: a failed list_network_instances is taken for an empty one.      *)
markMissingInstancesUnchecked(rows, s, m) ==
  [i \in Instances |->
     IF /\ rows[i] # None
        /\ rows[i].machine_id = m
        /\ rows[i].active
        /\ i \notin Listed(s.machines[m])
        /\ rows[i].completed_at < s.completed_at
     THEN Deactivated(rows[i], s)
     ELSE rows[i]]

(* Active rows of machine m's instances that its list no longer holds.     *)
markMissingInstancesInactive(rows, s, m) ==
  [i \in Instances |->
     IF /\ ~hasOperationError(s.machines[m].errors, "list_network_instances")
        /\ rows[i] # None
        /\ rows[i].machine_id = m
        /\ rows[i].active
        /\ i \notin Listed(s.machines[m])
        /\ rows[i].completed_at < s.completed_at
     THEN Deactivated(rows[i], s)
     ELSE rows[i]]

(* Mutant: an incomplete snapshot is taken for a complete one.             *)
MissingMachinesUnchecked(rows, s) ==
  [m \in Machines |->
     IF /\ rows[m] # None
        /\ rows[m].active
        /\ m \notin Reported(s)
        /\ rows[m].completed_at < s.completed_at
     THEN Deactivated(rows[m], s)
     ELSE rows[m]]

(* Both statements of markMissingMachinesInactive: the machines a complete *)
(* snapshot does not list, and the instances of such machines.             *)
MissingMachines(rows, s) ==
  [m \in Machines |->
     IF /\ s.errors = {}
        /\ rows[m] # None
        /\ rows[m].active
        /\ m \notin Reported(s)
        /\ rows[m].completed_at < s.completed_at
     THEN Deactivated(rows[m], s)
     ELSE rows[m]]

(* Mutant: the second statement of markMissingMachinesInactive is missing. *)
InstancesLeftBehind(rows, s) == rows

InstancesOfMissingMachines(rows, s) ==
  [i \in Instances |->
     IF /\ s.errors = {}
        /\ rows[i] # None
        /\ rows[i].active
        /\ rows[i].machine_id \notin Reported(s)
        /\ rows[i].completed_at < s.completed_at
     THEN Deactivated(rows[i], s)
     ELSE rows[i]]

(* One turn of the loop over snapshot.Machines.                            *)
ingestMachine(t, s, m) ==
  [runs      |-> t.runs,
   machines  |-> upsertMachine(t.machines, s, m),
   instances |-> markMissingInstancesInactive(upsertInstances(t.instances, s, m), s, m),
   nodes     |-> upsertNodes(t.nodes, s, m),
   links     |-> ingestPeers(t.links, s, m),
   samples   |-> t.samples \cup MetricKeys(s, m)]

markMissingMachinesInactive(t, s) ==
  [runs      |-> t.runs,
   machines  |-> MissingMachines(t.machines, s),
   instances |-> InstancesOfMissingMachines(t.instances, s),
   nodes     |-> t.nodes,
   links     |-> t.links,
   samples   |-> t.samples]

-----------------------------------------------------------------------------
(* Store.Ingest.                                                           *)

Idle == tx = None

(* Validation fails before a transaction is opened.                        *)
IngestInvalid(s) ==
  /\ Idle
  /\ ~Validate(s)
  /\ result' = "error"
  /\ UNCHANGED <<db, work, tx>>

(* The run row is inserted first; its primary key decides whether this     *)
(* transaction does the work.                                              *)
IngestBegin(s) ==
  /\ Idle
  /\ Validate(s)
  /\ work.runs[s.collection_id] = None
  /\ work' = [work EXCEPT !.runs = [@ EXCEPT ![s.collection_id] = s]]
  /\ tx' = [snapshot |-> s, done |-> {}]
  /\ result' = "none"
  /\ UNCHANGED db

(* The collection is already stored: the fingerprint of the payload tells  *)
(* a repeated delivery from a reused id. The check itself may fail too.     *)
IngestDuplicate(s) ==
  /\ Idle
  /\ Validate(s)
  /\ work.runs[s.collection_id] # None
  /\ result' \in IF work.runs[s.collection_id] = s THEN {"duplicate", "error"} ELSE {"error"}
  /\ UNCHANGED <<db, work, tx>>

Remaining == Reported(tx.snapshot) \ tx.done

(* The next machine of the snapshot, which lists them by ascending id.     *)
IsNext(m) == m \in Remaining /\ \A n \in Remaining : m <= n

(* A metric series already stored for this collection and instance would   *)
(* violate metric_samples' primary key.                                    *)
IngestMachine(m) ==
  /\ ~Idle
  /\ IsNext(m)
  /\ MetricKeys(tx.snapshot, m) \cap work.samples = {}
  /\ work' = ingestMachine(work, tx.snapshot, m)
  /\ tx' = [tx EXCEPT !.done = @ \cup {m}]
  /\ UNCHANGED <<db, result>>

(* Mutant: the metric batch is sent outside the transaction.               *)
RollbackLeavesSamples ==
  /\ ~Idle
  /\ db' = [db EXCEPT !.samples = work.samples]
  /\ work' = db'
  /\ tx' = None
  /\ result' = "error"

(* Any statement may fail: the metric key, the poll deadline, the          *)
(* connection, a controller or database crash. The transaction rolls back. *)
Rollback ==
  /\ ~Idle
  /\ work' = db
  /\ tx' = None
  /\ result' = "error"
  /\ UNCHANGED db

(* The machines are done: mark what is missing, then commit. When the      *)
(* acknowledgement is lost the caller sees an error, yet the data is in.   *)
IngestCommit ==
  /\ ~Idle
  /\ Remaining = {}
  /\ work' = markMissingMachinesInactive(work, tx.snapshot)
  /\ db' = work'
  /\ tx' = None
  /\ result' \in {"ingested", "error"}

Next ==
  \/ \E s \in Snapshots : IngestInvalid(s) \/ IngestBegin(s) \/ IngestDuplicate(s)
  \/ \E m \in Machines : IngestMachine(m)
  \/ Rollback
  \/ IngestCommit

Spec == Init /\ [][Next]_vars

-----------------------------------------------------------------------------
(* What ingestion promises whatever the order of delivery.                 *)

Ingested(c) == db.runs[c] # None

(* A machine row exists exactly when an ingested snapshot listed the       *)
(* machine, is never older than any of them, and its columns are those of  *)
(* a snapshot that made the row's observation (upsertMachine's guard under *)
(* reordering, and no row without its run).                                *)
MachineRowsAreLatest ==
  \A m \in Machines :
    /\ \A c \in Collections :
         Ingested(c) /\ m \in Reported(db.runs[c]) =>
           /\ db.machines[m] # None
           /\ db.runs[c].machines[m].observed_at <= db.machines[m].observed_at
    /\ db.machines[m] # None =>
         LET c == db.machines[m].source IN
           /\ Ingested(c)
           /\ m \in Reported(db.runs[c])
           /\ db.runs[c].machines[m].observed_at = db.machines[m].observed_at

(* The same for instance rows, whose machine_id is a machine on which an   *)
(* ingested snapshot saw the instance at the stored time.                  *)
InstanceRowsAreLatest ==
  \A i \in Instances :
    /\ \A c \in Collections : Ingested(c) =>
         \A m \in Hosts(db.runs[c], i) :
           /\ db.instances[i] # None
           /\ db.runs[c].machines[m].instances[i].observed_at
                <= db.instances[i].observed_at
    /\ db.instances[i] # None =>
         \E c \in Collections :
           /\ Ingested(c)
           /\ db.instances[i].machine_id \in Hosts(db.runs[c], i)
           /\ db.runs[c].machines[db.instances[i].machine_id].instances[i].observed_at
                = db.instances[i].observed_at

(* The same for node rows, over the snapshots whose show_node_info         *)
(* succeeded.                                                              *)
NodeRowsAreLatest ==
  \A i \in Instances :
    /\ \A c \in Collections : Ingested(c) =>
         \A m \in Hosts(db.runs[c], i) :
           LET v == db.runs[c].machines[m].instances[i] IN
             v.node => db.nodes[i] # None /\ v.observed_at <= db.nodes[i].observed_at
    /\ db.nodes[i] # None =>
         LET c == db.nodes[i].source IN
           /\ Ingested(c)
           /\ \E m \in Hosts(db.runs[c], i) :
                LET v == db.runs[c].machines[m].instances[i] IN
                  v.node /\ v.observed_at = db.nodes[i].observed_at

(* No current row is older than what was ingested, in whatever order.      *)
RowsAreLatest ==
  MachineRowsAreLatest /\ InstanceRowsAreLatest /\ NodeRowsAreLatest

(* Every metric sample of an ingested snapshot is stored and no other is:  *)
(* a failed or interrupted transaction leaves nothing behind.              *)
SamplesMatchRuns ==
  \A k \in Collections \X Instances \X Metrics :
    k \in db.samples <=>
      /\ Ingested(k[1])
      /\ \E m \in Hosts(db.runs[k[1]], k[2]) :
           k[3] \in db.runs[k[1]].machines[m].instances[k[2]].metrics

(* An observation (observed, completed) is later than another.             *)
IsLater(observed, completed, o, c) ==
  o < observed \/ (o = observed /\ c < completed)

(* Collection c was ingested and saw the link from i to p on machine m, or *)
(* read the routes of i on m and saw no such link.                         *)
SawLink(c, m, i, p) ==
  /\ Ingested(c)
  /\ m \in Hosts(db.runs[c], i)
  /\ db.runs[c].machines[m].instances[i].peers[p] # None

SawNoLink(c, m, i, p) ==
  /\ Ingested(c)
  /\ m \in Hosts(db.runs[c], i)
  /\ db.runs[c].machines[m].instances[i].peers[p] = None
  /\ "list_routes" \notin db.runs[c].machines[m].instances[i].errors

(* A stored link is, path and all, what an ingested snapshot saw at the    *)
(* row's time; and whatever an ingested snapshot saw is stored, unless the *)
(* row is at least as late or the routes of a later ingested snapshot do   *)
(* not have the link. So neither the order of delivery nor a transaction   *)
(* that failed half way loses, invents or sets back a link.                *)
LinkRowsAreLatest ==
  \A i \in Instances, p \in Peers :
    LET row == db.links[i][p] IN
    /\ row # None =>
         \E c \in Collections, m \in Machines :
           /\ SawLink(c, m, i, p)
           /\ db.runs[c].completed_at = row.completed_at
           /\ db.runs[c].machines[m].instances[i].observed_at = row.observed_at
           /\ db.runs[c].machines[m].instances[i].peers[p].direct = row.direct
    /\ \A c \in Collections, m \in Machines : SawLink(c, m, i, p) =>
         LET observed  == db.runs[c].machines[m].instances[i].observed_at
             completed == db.runs[c].completed_at
         IN \/ /\ row # None
               /\ ~IsLater(observed, completed, row.observed_at, row.completed_at)
            \/ \E d \in Collections, n \in Machines :
                 /\ SawNoLink(d, n, i, p)
                 /\ IsLater(db.runs[d].machines[n].instances[i].observed_at,
                            db.runs[d].completed_at, observed, completed)

-----------------------------------------------------------------------------
(* What one commit may and may not do.                                     *)

Committing == ~Idle /\ db' # db

(* A snapshot is fresh when it was started after every ingested collection *)
(* had completed, whatever the order those were ingested in.               *)
Fresh(s) ==
  \A c \in Collections : Ingested(c) => db.runs[c].completed_at < s.started_at

(* Observations of a collection are made while it runs.                    *)
InWindow(s) ==
  \A m \in Reported(s) :
    /\ s.started_at <= s.machines[m].observed_at
    /\ \A i \in Listed(s.machines[m]) :
         s.started_at <= s.machines[m].instances[i].observed_at

(* Tables t say of every machine and instance what snapshot s says: the    *)
(* listed ones are active, and if s is complete nothing else is, save      *)
(* instances of a listed machine whose own list could not be read.         *)
Converged(t, s) ==
  /\ \A m \in Reported(s) : t.machines[m] # None /\ t.machines[m].active
  /\ \A i \in Instances : Hosts(s, i) # {} =>
       /\ t.instances[i] # None /\ t.instances[i].active
       /\ t.instances[i].machine_id \in Hosts(s, i)
  /\ s.errors = {} =>
       /\ \A m \in Machines \ Reported(s) :
            t.machines[m] # None => ~t.machines[m].active
       /\ \A i \in Instances :
            (Hosts(s, i) = {} /\ t.instances[i] # None /\ t.instances[i].active) =>
               LET m == t.instances[i].machine_id IN
                 m \in Reported(s) /\ s.machines[m].errors # {}

(* A fresh snapshot repairs whatever out-of-order deliveries have left:    *)
(* its commit makes the tables' activity agree with it.                    *)
FreshCommitConverges ==
  [][Committing /\ Fresh(tx.snapshot) /\ InWindow(tx.snapshot)
       => Converged(db', tx.snapshot)]_vars

(* Partial failure never takes anything offline: a machine only goes       *)
(* inactive through a complete snapshot that lacks it, an instance only    *)
(* through a successful list or a complete snapshot, and a peer link is    *)
(* only deleted by a successful list_routes of its instance.               *)
ErrorsNeverErase ==
  [][LET s == tx.snapshot
         listFailed(m) == m \in Reported(s) /\ s.machines[m].errors # {}
     IN Committing =>
       /\ \A m \in Machines :
            (db.machines[m] # None /\ db.machines[m].active /\ ~db'.machines[m].active)
              => s.errors = {} /\ m \notin Reported(s)
       /\ \A i \in Instances :
            (db.instances[i] # None /\ db.instances[i].active /\ ~db'.instances[i].active)
              => LET m == db.instances[i].machine_id IN
                   ~listFailed(m) /\ (m \in Reported(s) \/ s.errors = {})
       /\ \A i \in Instances, p \in Peers :
            (db.links[i][p] # None /\ db'.links[i][p] = None)
              => \E m \in Hosts(s, i) :
                   "list_routes" \notin s.machines[m].instances[i].errors]_vars

(* Link details taken from a successful list_peers are only ever replaced  *)
(* by those of another successful list_peers, unless the snapshot lists    *)
(* the instance on two machines: one clone's routes may then delete the    *)
(* link and the other's enter it anew.                                     *)
Cloned(s, i) == \E m, n \in Hosts(s, i) : m # n

GoodDetails(t, i, p) ==
  /\ t.links[i][p] # None
  /\ \E m \in Hosts(t.runs[t.links[i][p].details], i) :
       "list_peers" \notin t.runs[t.links[i][p].details].machines[m].instances[i].errors

DetailsSurviveFailure ==
  [][\A i \in Instances, p \in Peers :
       GoodDetails(db, i, p) /\ ~(Committing /\ Cloned(tx.snapshot, i))
         => db'.links[i][p] = None \/ GoodDetails(db', i, p)]_vars

-----------------------------------------------------------------------------
(* In-order delivery. One controller polls serially and the collections of *)
(* the gateway do not overlap, so a snapshot that is ingested was started  *)
(* after every ingested one had completed.                                 *)

InOrderNext ==
  \/ \E s \in Snapshots :
       \/ IngestInvalid(s)
       \/ Fresh(s) /\ InWindow(s) /\ IngestBegin(s)
       \/ IngestDuplicate(s)
  \/ \E m \in Machines : IngestMachine(m)
  \/ Rollback
  \/ IngestCommit

InOrderSpec == Init /\ [][InOrderNext]_vars

(* The committed tables as their readers see them.                         *)
Online == {m \in Machines : db.machines[m] # None /\ db.machines[m].active}
HostOf == [i \in Instances |->
             IF db.instances[i] # None /\ db.instances[i].active
             THEN db.instances[i].machine_id ELSE None]
Linked == [i \in Instances |-> {p \in Peers : db.links[i][p] # None}]

Live == INSTANCE LiveTopology
          WITH published <- db.runs, online <- Online, host <- HostOf, links <- Linked

(* In order, the timestamp guards and the transactions amount to "the last *)
(* snapshot, plus what it could not read".                                 *)
ImplementsLiveTopology == Live!Spec

-----------------------------------------------------------------------------
(* Claims of the documentation that the code does not keep.                *)

(* "A stale snapshot ... must not overwrite or delete newer current        *)
(* state": a row last touched by a later collection is left alone.         *)
StaleNeverOverwrites ==
  [][LET s == tx.snapshot IN
     Committing =>
       /\ \A m \in Machines :
            db.machines[m] # None /\ s.completed_at < db.machines[m].completed_at
              => db'.machines[m] = db.machines[m]
       /\ \A i \in Instances :
            db.instances[i] # None /\ s.completed_at < db.instances[i].completed_at
              => db'.instances[i] = db.instances[i]]_vars

(* "Relayed RTT: route path latency", "Direct RTT: ... connection RTT": a  *)
(* direct link never shows a path latency.                                 *)
DirectLatencyIsRtt ==
  \A i \in Instances, p \in Peers :
    db.links[i][p] # None /\ db.links[i][p].direct => db.links[i][p].latency # "path"
=============================================================================
