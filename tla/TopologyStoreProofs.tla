------------------------ MODULE TopologyStoreProofs ------------------------
(***************************************************************************)
(* Theorems about TopologyStore, for every set of collections, machines,   *)
(* instances, peers, metrics and snapshots.                                *)
(***************************************************************************)
EXTENDS TopologyStore, TLAPS

MachineTable  == [Machines -> MachineRow \cup {None}]
InstanceTable == [Instances -> InstanceRow \cup {None}]
NodeTable     == [Instances -> NodeRow \cup {None}]
LinkTable     == [Instances -> [Peers -> LinkRow \cup {None}]]

-----------------------------------------------------------------------------
(* What a snapshot consists of.                                            *)
LEMMA SnapshotTypes ==
  ASSUME NEW s \in Snapshots
  PROVE  /\ s \in Snapshot
         /\ s # None
         /\ s.collection_id \in Collections
         /\ s.started_at \in Nat
         /\ s.completed_at \in Nat
         /\ s.machines \in [Machines -> MachineView \cup {None}]
BY SnapshotsAssumption, NoneAssumption DEF Snapshot

LEMMA ViewTypes ==
  ASSUME NEW s \in Snapshots, NEW m \in Reported(s)
  PROVE  /\ m \in Machines
         /\ s.machines[m] \in MachineView
         /\ s.machines[m].observed_at \in Nat
         /\ \A i \in Instances :
              LET v == s.machines[m].instances[i] IN
              v # None => /\ v \in InstanceView
                          /\ v.observed_at \in Nat
                          /\ v.peers \in [Peers -> PeerView \cup {None}]
BY SnapshotTypes DEF Reported, MachineView, InstanceView

(* Every statement keeps its table well typed.                             *)
LEMMA MachineTableType ==
  ASSUME NEW rows \in MachineTable, NEW s \in Snapshots, NEW m \in Reported(s)
  PROVE  upsertMachine(rows, s, m) \in MachineTable
BY SnapshotTypes, ViewTypes DEF upsertMachine, MachineTable, MachineRow

LEMMA MissingMachinesType ==
  ASSUME NEW rows \in MachineTable, NEW s \in Snapshots
  PROVE  MissingMachines(rows, s) \in MachineTable
BY SnapshotTypes DEF MissingMachines, Deactivated, MachineTable, MachineRow

LEMMA InstanceTableType ==
  ASSUME NEW rows \in InstanceTable, NEW s \in Snapshots, NEW m \in Reported(s)
  PROVE  upsertInstances(rows, s, m) \in InstanceTable
BY SnapshotTypes, ViewTypes DEF upsertInstances, InstanceTable, InstanceRow

LEMMA MissingInstancesType ==
  ASSUME NEW rows \in InstanceTable, NEW s \in Snapshots, NEW m \in Machines
  PROVE  /\ markMissingInstancesInactive(rows, s, m) \in InstanceTable
         /\ InstancesOfMissingMachines(rows, s) \in InstanceTable
BY SnapshotTypes
   DEF markMissingInstancesInactive, InstancesOfMissingMachines, Deactivated,
       InstanceTable, InstanceRow

(* Deactivating a row changes its activity and collection time only.       *)
LEMMA DeactivatedInstance ==
  ASSUME NEW row \in InstanceRow, NEW s \in Snapshots
  PROVE  /\ Deactivated(row, s) \in InstanceRow
         /\ Deactivated(row, s) # None
         /\ ~Deactivated(row, s).active
         /\ Deactivated(row, s).observed_at = row.observed_at
         /\ Deactivated(row, s).completed_at = s.completed_at
         /\ Deactivated(row, s).machine_id = row.machine_id
<1>1. Deactivated(row, s) \in InstanceRow BY SnapshotTypes DEF Deactivated, InstanceRow
<1>2. Deactivated(row, s) # None BY <1>1, NoRowAssumption
<1> QED BY <1>1, <1>2 DEF Deactivated, InstanceRow

LEMMA DeactivatedMachine ==
  ASSUME NEW row \in MachineRow, NEW s \in Snapshots
  PROVE  /\ Deactivated(row, s) \in MachineRow
         /\ Deactivated(row, s) # None
         /\ ~Deactivated(row, s).active
         /\ Deactivated(row, s).observed_at = row.observed_at
         /\ Deactivated(row, s).completed_at = s.completed_at
<1>1. Deactivated(row, s) \in MachineRow BY SnapshotTypes DEF Deactivated, MachineRow
<1>2. Deactivated(row, s) # None BY <1>1, NoRowAssumption
<1> QED BY <1>1, <1>2 DEF Deactivated, MachineRow

LEMMA NodeTableType ==
  ASSUME NEW rows \in NodeTable, NEW s \in Snapshots, NEW m \in Reported(s)
  PROVE  upsertNodes(rows, s, m) \in NodeTable
BY SnapshotTypes, ViewTypes DEF upsertNodes, NodeTable, NodeRow

LEMMA LinkRowType ==
  ASSUME NEW row \in LinkRow \cup {None}, NEW s \in Snapshots, NEW v \in InstanceView,
         NEW peer \in PeerView
  PROVE  upsertPeer(row, s, v, peer) \in LinkRow \cup {None}
BY SnapshotTypes DEF upsertPeer, LinkRow, InstanceView, PeerView

LEMMA LinkTableType ==
  ASSUME NEW rows \in LinkTable, NEW s \in Snapshots, NEW m \in Reported(s)
  PROVE  ingestPeers(rows, s, m) \in LinkTable
<1> SUFFICES ASSUME NEW i \in Instances
             PROVE  ingestPeers(rows, s, m)[i] \in [Peers -> LinkRow \cup {None}]
  BY DEF ingestPeers, LinkTable
<1> DEFINE v == s.machines[m].instances[i]
<1>1. CASE v = None BY <1>1 DEF ingestPeers, LinkTable
<1>2. CASE v # None
  <2>1. v \in InstanceView /\ v.peers \in [Peers -> PeerView \cup {None}]
    BY <1>2, ViewTypes
  <2>2. \A p \in Peers : v.peers[p] # None =>
          upsertPeer(rows[i][p], s, v, v.peers[p]) \in LinkRow \cup {None}
    BY <2>1, LinkRowType DEF LinkTable
  <2> HIDE DEF v
  <2>3. ingestPeers(rows, s, m)[i] =
          [p \in Peers |->
             IF v.peers[p] # None THEN upsertPeer(rows[i][p], s, v, v.peers[p])
             ELSE IF IsStalePeer(rows[i][p], s, v) THEN None
             ELSE rows[i][p]]
    BY <1>2 DEF ingestPeers, v
  <2> QED BY <2>2, <2>3 DEF LinkTable
<1> QED BY <1>1, <1>2

LEMMA MetricKeysType ==
  ASSUME NEW s \in Snapshots, NEW m \in Reported(s)
  PROVE  MetricKeys(s, m) \subseteq Collections \X Instances \X Metrics
BY SnapshotTypes DEF MetricKeys, Listed

-----------------------------------------------------------------------------
(* The tables after one machine, and after the last: their fields.         *)
LEMMA AfterMachineFields ==
  ASSUME NEW t \in Tables, NEW s \in Snapshots, NEW m \in Reported(s)
  PROVE  /\ ingestMachine(t, s, m) \in Tables
         /\ ingestMachine(t, s, m).runs = t.runs
         /\ ingestMachine(t, s, m).machines = upsertMachine(t.machines, s, m)
         /\ ingestMachine(t, s, m).instances =
              markMissingInstancesInactive(upsertInstances(t.instances, s, m), s, m)
         /\ ingestMachine(t, s, m).nodes = upsertNodes(t.nodes, s, m)
         /\ ingestMachine(t, s, m).links = ingestPeers(t.links, s, m)
         /\ ingestMachine(t, s, m).samples = t.samples \cup MetricKeys(s, m)
<1>1. /\ t.machines \in MachineTable /\ t.instances \in InstanceTable
      /\ t.nodes \in NodeTable /\ t.links \in LinkTable
      /\ t.samples \subseteq Collections \X Instances \X Metrics
      /\ t.runs \in [Collections -> Snapshots \cup {None}]
  BY DEF Tables, MachineTable, InstanceTable, NodeTable, LinkTable
<1>2. m \in Machines BY DEF Reported
<1>3. upsertMachine(t.machines, s, m) \in MachineTable BY <1>1, MachineTableType
<1>4. markMissingInstancesInactive(upsertInstances(t.instances, s, m), s, m) \in InstanceTable
  BY <1>1, <1>2, InstanceTableType, MissingInstancesType
<1>5. upsertNodes(t.nodes, s, m) \in NodeTable BY <1>1, NodeTableType
<1>6. ingestPeers(t.links, s, m) \in LinkTable BY <1>1, LinkTableType
<1>7. t.samples \cup MetricKeys(s, m) \in SUBSET (Collections \X Instances \X Metrics)
  BY <1>1, MetricKeysType
<1> QED
  BY <1>1, <1>3, <1>4, <1>5, <1>6, <1>7
     DEF ingestMachine, Tables, MachineTable, InstanceTable, NodeTable, LinkTable

LEMMA AfterMarkingFields ==
  ASSUME NEW t \in Tables, NEW s \in Snapshots
  PROVE  /\ markMissingMachinesInactive(t, s) \in Tables
         /\ markMissingMachinesInactive(t, s).runs = t.runs
         /\ markMissingMachinesInactive(t, s).machines = MissingMachines(t.machines, s)
         /\ markMissingMachinesInactive(t, s).instances = InstancesOfMissingMachines(t.instances, s)
         /\ markMissingMachinesInactive(t, s).nodes = t.nodes
         /\ markMissingMachinesInactive(t, s).links = t.links
         /\ markMissingMachinesInactive(t, s).samples = t.samples
<1>1. t.machines \in MachineTable /\ t.instances \in InstanceTable
  BY DEF Tables, MachineTable, InstanceTable
<1>2. MissingMachines(t.machines, s) \in MachineTable BY <1>1, MissingMachinesType
<1>3. InstancesOfMissingMachines(t.instances, s) \in InstanceTable
  <2>1. CASE Machines = {}
    BY <1>1, <2>1 DEF InstancesOfMissingMachines, InstanceTable, InstanceRow
  <2>2. CASE Machines # {} BY <1>1, <2>2, MissingInstancesType
  <2> QED BY <2>1, <2>2
<1> QED
  BY <1>2, <1>3 DEF markMissingMachinesInactive, Tables, MachineTable, InstanceTable

-----------------------------------------------------------------------------
(* The open transaction: a valid snapshot whose run is new and is the only *)
(* run the working tables add.                                             *)
TransactionInv ==
  tx # None =>
    LET s == tx.snapshot IN
      /\ Validate(s)
      /\ tx.done \subseteq Reported(s)
      /\ db.runs[s.collection_id] = None
      /\ work.runs = [db.runs EXCEPT ![s.collection_id] = s]

WorkIsCommitted == Idle => work = db

TxInv == TypeOK /\ WorkIsCommitted /\ TransactionInv

LEMMA InitTxInv == Init => TxInv
<1> SUFFICES ASSUME Init PROVE TxInv OBVIOUS
<1>1. db \in Tables BY DEF Init, Tables
<1>2. QED BY <1>1 DEF Init, TxInv, TypeOK, WorkIsCommitted, TransactionInv, Idle

(* The open transaction's parts.                                           *)
LEMMA TransactionTypes ==
  ASSUME TypeOK, ~Idle
  PROVE  /\ tx \in Transaction
         /\ tx.snapshot \in Snapshots
         /\ tx.done \subseteq Machines
         /\ \A m : IsNext(m) => m \in Reported(tx.snapshot)
BY DEF TypeOK, Idle, Transaction, IsNext, Remaining

LEMMA BeginPreserves ==
  ASSUME TxInv, NEW s \in Snapshots, IngestBegin(s)
  PROVE  TxInv'
<1>1. s.collection_id \in Collections BY SnapshotTypes
<1>2. [snapshot |-> s, done |-> {}] \in Transaction /\ tx' = [snapshot |-> s, done |-> {}]
  BY DEF IngestBegin, Transaction
<1>3. tx' # None BY <1>2, NoRowAssumption
<1>4. work = db /\ db \in Tables /\ db.runs \in [Collections -> Snapshots \cup {None}]
  BY DEF IngestBegin, TxInv, TypeOK, WorkIsCommitted, Tables
<1>5. [db.runs EXCEPT ![s.collection_id] = s] \in [Collections -> Snapshots \cup {None}]
  BY <1>1, <1>4
<1>6. /\ work' \in Tables
      /\ work'.runs = [db.runs EXCEPT ![s.collection_id] = s]
  BY <1>4, <1>5 DEF IngestBegin, Tables
<1>7. TypeOK' BY <1>2, <1>6 DEF IngestBegin, TxInv, TypeOK
<1>8. TransactionInv'
  BY <1>2, <1>4, <1>6 DEF IngestBegin, TransactionInv, Validate, Reported
<1> QED BY <1>3, <1>7, <1>8 DEF TxInv, WorkIsCommitted, Idle

LEMMA MachinePreserves ==
  ASSUME TxInv, NEW m \in Machines, IngestMachine(m)
  PROVE  TxInv'
<1> DEFINE s == tx.snapshot
<1>1. /\ tx \in Transaction /\ s \in Snapshots /\ m \in Reported(s)
  BY TransactionTypes DEF IngestMachine, TxInv
<1>2. /\ work' \in Tables /\ work'.runs = work.runs
  BY <1>1, AfterMachineFields DEF IngestMachine, TxInv, TypeOK
<1>3. /\ tx' \in Transaction /\ tx'.snapshot = s /\ tx'.done = tx.done \cup {m}
  BY <1>1 DEF IngestMachine, Transaction
<1>4. tx' # None BY <1>3, NoRowAssumption
<1>5. TypeOK' BY <1>2, <1>3 DEF IngestMachine, TxInv, TypeOK
<1>6. tx # None BY DEF IngestMachine, Idle
<1>7. TransactionInv'
  BY <1>1, <1>2, <1>3, <1>6 DEF IngestMachine, TxInv, TransactionInv, Validate, Reported
<1> QED BY <1>4, <1>5, <1>7 DEF TxInv, WorkIsCommitted, Idle

LEMMA CommitPreserves ==
  ASSUME TxInv, IngestCommit
  PROVE  TxInv'
<1>1. tx.snapshot \in Snapshots BY TransactionTypes DEF IngestCommit, TxInv
<1>2. work' \in Tables BY <1>1, AfterMarkingFields DEF IngestCommit, TxInv, TypeOK
<1> QED
  BY <1>2 DEF IngestCommit, TxInv, TypeOK, WorkIsCommitted, TransactionInv, Idle

LEMMA NextTxInv == TxInv /\ [Next]_vars => TxInv'
<1> SUFFICES ASSUME TxInv, [Next]_vars PROVE TxInv' OBVIOUS
<1>1. ASSUME NEW s \in Snapshots, IngestInvalid(s) \/ IngestDuplicate(s) PROVE TxInv'
  BY <1>1 DEF IngestInvalid, IngestDuplicate, TxInv, TypeOK, WorkIsCommitted,
              TransactionInv, Idle
<1>2. ASSUME NEW s \in Snapshots, IngestBegin(s) PROVE TxInv' BY <1>2, BeginPreserves
<1>3. ASSUME NEW m \in Machines, IngestMachine(m) PROVE TxInv' BY <1>3, MachinePreserves
<1>4. CASE Rollback
  BY <1>4 DEF Rollback, TxInv, TypeOK, WorkIsCommitted, TransactionInv, Idle
<1>5. CASE IngestCommit BY <1>5, CommitPreserves
<1>6. CASE UNCHANGED vars
  BY <1>6 DEF vars, TxInv, TypeOK, WorkIsCommitted, TransactionInv, Idle
<1> QED BY <1>1, <1>2, <1>3, <1>4, <1>5, <1>6 DEF Next

(* Every reachable state is well typed, whatever is delivered and however  *)
(* often, and whichever statement fails.                                   *)
THEOREM TypeCorrect == Spec => []TypeOK
<1>1. TxInv => TypeOK BY DEF TxInv
<1> QED BY InitTxInv, NextTxInv, <1>1, PTL DEF Spec

-----------------------------------------------------------------------------
(* Convergence of a fresh snapshot. Its argument: a row's times never      *)
(* exceed the completion of some ingested run, so every guard of a fresh   *)
(* transaction lets the statement through; and while it runs, each row is  *)
(* what the machines done so far say, or what was committed before.        *)

(* The row's times are bounded by a run of t.                              *)
Bounded(t, row) ==
  \E c \in Collections :
    /\ t.runs[c] # None
    /\ row.observed_at <= t.runs[c].completed_at
    /\ row.completed_at <= t.runs[c].completed_at

RowsBounded(t) ==
  /\ \A m \in Machines : t.machines[m] # None => Bounded(t, t.machines[m])
  /\ \A i \in Instances : t.instances[i] # None => Bounded(t, t.instances[i])

(* Every row's times precede snapshot s.                                   *)
AllOlder(t, s) ==
  /\ \A m \in Machines : t.machines[m] # None =>
       t.machines[m].observed_at < s.started_at /\ t.machines[m].completed_at < s.started_at
  /\ \A i \in Instances : t.instances[i] # None =>
       t.instances[i].observed_at < s.started_at /\ t.instances[i].completed_at < s.started_at

MachineProgress(m) ==
  IF m \in tx.done THEN work.machines[m] # None /\ work.machines[m].active
  ELSE work.machines[m] = db.machines[m]

(* An instance some done machine lists is active on one that lists it;     *)
(* any other is as committed, or deactivated by a machine whose list could *)
(* be read.                                                                *)
InstanceProgress(i) ==
  LET s   == tx.snapshot
      row == work.instances[i]
      old == db.instances[i]
  IN  IF Hosts(s, i) \cap tx.done # {}
      THEN row # None /\ row.active /\ row.machine_id \in Hosts(s, i)
      ELSE /\ row = old \/ (old # None /\ row # None /\ ~row.active
                              /\ row.observed_at = old.observed_at)
           /\ row # None /\ row.active /\ row.machine_id \in tx.done =>
                s.machines[row.machine_id].errors # {}

FreshProgress ==
  tx # None /\ Fresh(tx.snapshot) /\ InWindow(tx.snapshot) =>
    /\ \A m \in Machines : MachineProgress(m)
    /\ \A i \in Instances : InstanceProgress(i)

FreshInv == TxInv /\ RowsBounded(db) /\ RowsBounded(work) /\ FreshProgress

LEMMA FreshMeansOlder ==
  ASSUME NEW s \in Snapshots, TypeOK, RowsBounded(db), Fresh(s)
  PROVE  AllOlder(db, s)
<1>1. \A c \in Collections : db.runs[c] # None =>
        db.runs[c].completed_at \in Nat /\ db.runs[c].completed_at < s.started_at
  BY SnapshotTypes DEF TypeOK, Tables, Fresh, Ingested
<1>2. s.started_at \in Nat BY SnapshotTypes
<1>3. ASSUME NEW m \in Machines, db.machines[m] # None
      PROVE  db.machines[m].observed_at \in Nat /\ db.machines[m].completed_at \in Nat
  BY <1>3 DEF TypeOK, Tables, MachineRow
<1>4. ASSUME NEW i \in Instances, db.instances[i] # None
      PROVE  db.instances[i].observed_at \in Nat /\ db.instances[i].completed_at \in Nat
  BY <1>4 DEF TypeOK, Tables, InstanceRow
<1>5. ASSUME NEW m \in Machines, db.machines[m] # None
      PROVE  /\ db.machines[m].observed_at < s.started_at
             /\ db.machines[m].completed_at < s.started_at
  BY <1>1, <1>2, <1>3, <1>5 DEF RowsBounded, Bounded
<1>6. ASSUME NEW i \in Instances, db.instances[i] # None
      PROVE  /\ db.instances[i].observed_at < s.started_at
             /\ db.instances[i].completed_at < s.started_at
  BY <1>1, <1>2, <1>4, <1>6 DEF RowsBounded, Bounded
<1> QED BY <1>5, <1>6 DEF AllOlder

(* New rows are bounded by the run that wrote them, old ones stay bounded. *)
LEMMA MachineKeepsBounds ==
  ASSUME TxInv, RowsBounded(work), NEW m \in Machines, IngestMachine(m)
  PROVE  RowsBounded(work')
<1> DEFINE s == tx.snapshot
<1>1. s \in Snapshots /\ m \in Reported(s)
  BY TransactionTypes DEF IngestMachine, TxInv
<1>2. /\ work'.runs = work.runs
      /\ work'.machines = upsertMachine(work.machines, s, m)
      /\ work'.instances =
           markMissingInstancesInactive(upsertInstances(work.instances, s, m), s, m)
  BY <1>1, AfterMachineFields DEF IngestMachine, TxInv, TypeOK
<1>3. /\ s.collection_id \in Collections
      /\ work.runs[s.collection_id] = s
      /\ s # None
      /\ Validate(s)
  BY <1>1, SnapshotTypes DEF IngestMachine, Idle, TxInv, TypeOK, Tables, TransactionInv
<1>4. s.completed_at \in Nat BY <1>1, SnapshotTypes
<1>5. ASSUME NEW row, row.observed_at <= s.completed_at, row.completed_at <= s.completed_at
      PROVE  Bounded(work', row)
  BY <1>2, <1>3, <1>5 DEF Bounded
<1>6. ASSUME NEW row, Bounded(work, row) PROVE Bounded(work', row)
  BY <1>2, <1>6 DEF Bounded
<1> HIDE DEF s
<1>7. ASSUME NEW n \in Machines, work'.machines[n] # None
      PROVE  Bounded(work', work'.machines[n])
  <2>1. CASE work'.machines[n] = work.machines[n] BY <1>6, <1>7, <2>1 DEF RowsBounded
  <2>2. CASE work'.machines[n] # work.machines[n]
    <3>1. /\ work'.machines[n].observed_at = s.machines[m].observed_at
          /\ work'.machines[n].completed_at = s.completed_at
          /\ s.machines[m].observed_at <= s.completed_at
      BY <1>1, <1>2, <1>3, <2>2 DEF upsertMachine, TxInv, TypeOK, Tables, Validate
    <3> QED BY <1>4, <1>5, <3>1
  <2> QED BY <2>1, <2>2
<1>8. ASSUME NEW i \in Instances, work'.instances[i] # None
      PROVE  Bounded(work', work'.instances[i])
  <2> DEFINE v   == s.machines[m].instances[i]
             mid == upsertInstances(work.instances, s, m)[i]
  <2>1. mid # None => Bounded(work', mid)
    <3>1. CASE mid = work.instances[i] BY <1>6, <3>1 DEF RowsBounded
    <3>2. CASE mid # work.instances[i]
      <4>1. /\ mid.observed_at = v.observed_at
            /\ mid.completed_at = s.completed_at
            /\ v # None
        BY <3>2 DEF upsertInstances
      <4>2. v.observed_at <= s.completed_at
        BY <1>1, <1>3, <4>1 DEF Validate, Listed
      <4> QED BY <1>4, <1>5, <4>1, <4>2
    <3> QED BY <3>1, <3>2
  <2>2. upsertInstances(work.instances, s, m) \in InstanceTable
    BY <1>1, InstanceTableType DEF TxInv, TypeOK, Tables, InstanceTable
  <2>3. \/ work'.instances[i] = mid
        \/ /\ mid # None
           /\ work'.instances[i].observed_at = mid.observed_at
           /\ work'.instances[i].completed_at = s.completed_at
           /\ mid.completed_at < s.completed_at
    <3>1. mid = None \/ mid \in InstanceRow BY <2>2 DEF InstanceTable
    <3>2. \/ work'.instances[i] = mid
          \/ /\ mid # None
             /\ work'.instances[i] = Deactivated(mid, s)
             /\ mid.completed_at < s.completed_at
      BY <1>2 DEF markMissingInstancesInactive
    <3> QED BY <1>1, <3>1, <3>2, DeactivatedInstance
  <2>4. CASE work'.instances[i] = mid BY <1>8, <2>1, <2>4
  <2>5. CASE mid # None /\ work'.instances[i] # mid
    <3>1. PICK c \in Collections : /\ work'.runs[c] # None
                                   /\ mid.observed_at <= work'.runs[c].completed_at
                                   /\ mid.completed_at <= work'.runs[c].completed_at
      BY <2>1, <2>5 DEF Bounded
    <3>2. mid.observed_at \in Nat /\ mid.completed_at \in Nat
      BY <2>2, <2>5 DEF InstanceTable, InstanceRow
    <3>3. work'.runs[c].completed_at \in Nat
      BY <1>2, <3>1, SnapshotTypes DEF TxInv, TypeOK, Tables
    <3>4. CASE work'.runs[c].completed_at <= s.completed_at
      <4>1. mid.observed_at <= s.completed_at BY <1>4, <3>1, <3>2, <3>3, <3>4
      <4> QED BY <1>4, <1>5, <2>3, <2>5, <4>1
    <3>5. CASE s.completed_at <= work'.runs[c].completed_at
      BY <2>3, <2>5, <3>1, <3>5 DEF Bounded
    <3> QED BY <1>4, <3>3, <3>4, <3>5
  <2> QED BY <2>3, <2>4, <2>5
<1> QED BY <1>7, <1>8 DEF RowsBounded

LEMMA CommitKeepsBounds ==
  ASSUME TxInv, RowsBounded(work), IngestCommit
  PROVE  RowsBounded(work')
<1> DEFINE s == tx.snapshot
<1>1. s \in Snapshots BY TransactionTypes DEF IngestCommit, TxInv
<1>2. /\ work'.runs = work.runs
      /\ work'.machines = MissingMachines(work.machines, s)
      /\ work'.instances = InstancesOfMissingMachines(work.instances, s)
  BY <1>1, AfterMarkingFields DEF IngestCommit, TxInv, TypeOK
<1>3. /\ s.collection_id \in Collections
      /\ work.runs[s.collection_id] = s
      /\ s # None
  BY <1>1, SnapshotTypes DEF IngestCommit, Idle, TxInv, TypeOK, Tables, TransactionInv
<1>4. s.completed_at \in Nat BY <1>1, SnapshotTypes
(* A deactivated row is bounded by the same run, or by the transaction's.  *)
<1>5. ASSUME NEW old, NEW row, Bounded(work, old),
             old.observed_at \in Nat, old.completed_at \in Nat,
             row.observed_at = old.observed_at, row.completed_at = s.completed_at
      PROVE  Bounded(work', row)
  <2>1. PICK c \in Collections : /\ work.runs[c] # None
                                 /\ old.observed_at <= work.runs[c].completed_at
    BY <1>5 DEF Bounded
  <2>2. work.runs[c].completed_at \in Nat
    BY <2>1, SnapshotTypes DEF TxInv, TypeOK, Tables
  <2>3. CASE work.runs[c].completed_at <= s.completed_at
    BY <1>2, <1>3, <1>4, <1>5, <2>1, <2>2, <2>3 DEF Bounded
  <2>4. CASE s.completed_at <= work.runs[c].completed_at
    BY <1>2, <1>5, <2>1, <2>4 DEF Bounded
  <2> QED BY <1>4, <2>2, <2>3, <2>4
<1>6. ASSUME NEW row, Bounded(work, row) PROVE Bounded(work', row)
  BY <1>2, <1>6 DEF Bounded
<1> HIDE DEF s
<1>7. ASSUME NEW m \in Machines, work'.machines[m] # None
      PROVE  Bounded(work', work'.machines[m])
  <2> DEFINE old == work.machines[m]
  <2>1. old = None \/ (old \in MachineRow /\ old.observed_at \in Nat /\ old.completed_at \in Nat)
    BY DEF TxInv, TypeOK, Tables, MachineRow
  <2>2. work'.machines[m] = old \/ (old # None /\ work'.machines[m] = Deactivated(old, s))
    BY <1>2 DEF MissingMachines
  <2>3. CASE work'.machines[m] = old BY <1>6, <1>7, <2>3 DEF RowsBounded
  <2>4. CASE old # None /\ work'.machines[m] = Deactivated(old, s)
    <3>1. Bounded(work, old) BY <2>4 DEF RowsBounded
    <3>2. /\ work'.machines[m].observed_at = old.observed_at
          /\ work'.machines[m].completed_at = s.completed_at
      BY <1>1, <2>1, <2>4, DeactivatedMachine
    <3> HIDE DEF old
    <3> QED BY <1>5, <2>1, <2>4, <3>1, <3>2
  <2> QED BY <2>2, <2>3, <2>4
<1>8. ASSUME NEW i \in Instances, work'.instances[i] # None
      PROVE  Bounded(work', work'.instances[i])
  <2> DEFINE old == work.instances[i]
  <2>1. old = None \/ (old \in InstanceRow /\ old.observed_at \in Nat /\ old.completed_at \in Nat)
    BY DEF TxInv, TypeOK, Tables, InstanceRow
  <2>2. work'.instances[i] = old \/ (old # None /\ work'.instances[i] = Deactivated(old, s))
    BY <1>2 DEF InstancesOfMissingMachines
  <2>3. CASE work'.instances[i] = old BY <1>6, <1>8, <2>3 DEF RowsBounded
  <2>4. CASE old # None /\ work'.instances[i] = Deactivated(old, s)
    <3>1. Bounded(work, old) BY <2>4 DEF RowsBounded
    <3>2. /\ work'.instances[i].observed_at = old.observed_at
          /\ work'.instances[i].completed_at = s.completed_at
      BY <1>1, <2>1, <2>4, DeactivatedInstance
    <3> HIDE DEF old
    <3> QED BY <1>5, <2>1, <2>4, <3>1, <3>2
  <2> QED BY <2>2, <2>3, <2>4
<1> QED BY <1>7, <1>8 DEF RowsBounded

(* The run row comes first and no other table changes.                     *)
LEMMA BeginKeepsFresh ==
  ASSUME FreshInv, NEW s \in Snapshots, IngestBegin(s)
  PROVE  RowsBounded(work') /\ FreshProgress'
<1>1. work = db /\ db \in Tables
  BY DEF FreshInv, TxInv, TypeOK, WorkIsCommitted, IngestBegin
<1>2. s.collection_id \in Collections /\ s # None BY SnapshotTypes
<1>3. /\ work'.machines = db.machines
      /\ work'.instances = db.instances
      /\ \A c \in Collections : db.runs[c] # None => work'.runs[c] = db.runs[c]
  BY <1>1, <1>2 DEF IngestBegin, Tables
<1>4. ASSUME NEW row, Bounded(db, row) PROVE Bounded(work', row)
  BY <1>3, <1>4 DEF Bounded
<1>5. RowsBounded(work') BY <1>3, <1>4 DEF RowsBounded, FreshInv
<1>6. tx'.done = {} /\ db' = db BY DEF IngestBegin
<1>7. \A m \in Machines : MachineProgress(m)' BY <1>3, <1>6 DEF MachineProgress
<1>8. \A i \in Instances : InstanceProgress(i)'
  BY <1>3, <1>6 DEF InstanceProgress
<1> QED BY <1>5, <1>7, <1>8 DEF FreshProgress

(* One machine of a fresh snapshot.                                        *)
LEMMA MachineKeepsFresh ==
  ASSUME FreshInv, NEW m \in Machines, IngestMachine(m)
  PROVE  FreshProgress'
<1> DEFINE s == tx.snapshot
<1>1. s \in Snapshots /\ m \in Reported(s) /\ tx \in Transaction
  BY TransactionTypes DEF IngestMachine, FreshInv, TxInv
<1>2. /\ work'.machines = upsertMachine(work.machines, s, m)
      /\ work'.instances =
           markMissingInstancesInactive(upsertInstances(work.instances, s, m), s, m)
  BY <1>1, AfterMachineFields DEF IngestMachine, FreshInv, TxInv, TypeOK
<1>3. /\ tx # None /\ tx'.snapshot = s /\ tx'.done = tx.done \cup {m} /\ m \notin tx.done
      /\ db' = db
  BY <1>1 DEF IngestMachine, Idle, Transaction, IsNext, Remaining
<1>4. /\ work.machines \in MachineTable
      /\ work.instances \in InstanceTable
      /\ db.instances \in InstanceTable
      /\ db.machines \in MachineTable
  BY DEF FreshInv, TxInv, TypeOK, Tables, MachineTable, InstanceTable
<1> SUFFICES ASSUME Fresh(s), InWindow(s)
             PROVE  /\ \A n \in Machines : MachineProgress(n)'
                    /\ \A i \in Instances : InstanceProgress(i)'
  BY <1>3 DEF FreshProgress, Fresh, Ingested, InWindow, Reported, Listed
<1>5. AllOlder(db, s) BY <1>1, FreshMeansOlder DEF FreshInv, TxInv
<1>6. /\ \A n \in Machines : MachineProgress(n)
      /\ \A i \in Instances : InstanceProgress(i)
  BY <1>3 DEF FreshInv, FreshProgress
<1>7. s.started_at \in Nat /\ s.completed_at \in Nat /\ s.started_at <= s.completed_at
  BY <1>1, <1>3, SnapshotTypes DEF FreshInv, TxInv, TransactionInv, Validate
<1>8. /\ s.machines[m].observed_at \in Nat
      /\ s.started_at <= s.machines[m].observed_at
  BY <1>1, ViewTypes DEF InWindow
<1> HIDE DEF s
<1>9. ASSUME NEW n \in Machines PROVE MachineProgress(n)'
  <2>1. CASE n = m
    <3>1. work.machines[m] = db.machines[m] BY <1>3, <1>6 DEF MachineProgress
    <3>2. db.machines[m] # None => db.machines[m].observed_at \in Nat
      BY <1>4 DEF MachineTable, MachineRow
    <3>3. Supersedes(s.machines[m].observed_at, s.completed_at, work.machines[m])
      BY <1>5, <1>7, <1>8, <3>1, <3>2 DEF Supersedes, AllOlder
    <3>4. /\ work'.machines[m] \in MachineRow \cup {None}
          /\ work'.machines[m] =
              [observed_at |-> s.machines[m].observed_at, completed_at |-> s.completed_at,
               active |-> TRUE, source |-> s.collection_id]
      BY <1>1, <1>2, <1>4, <3>3, MachineTableType DEF upsertMachine, MachineTable
    <3>5. s.collection_id \in Collections BY <1>1, SnapshotTypes
    <3>6. work'.machines[m] \in MachineRow BY <1>7, <1>8, <3>4, <3>5 DEF MachineRow
    <3>7. work'.machines[m] # None BY <3>6, NoRowAssumption
    <3> QED BY <1>3, <2>1, <3>4, <3>7 DEF MachineProgress
  <2>2. CASE n # m
    <3>1. work'.machines[n] = work.machines[n]
      BY <1>2, <1>4, <2>2 DEF upsertMachine, MachineTable
    <3> QED BY <1>3, <1>6, <2>2, <3>1 DEF MachineProgress
  <2> QED BY <2>1, <2>2
<1>10. ASSUME NEW i \in Instances PROVE InstanceProgress(i)'
  <2> DEFINE v   == s.machines[m].instances[i]
             row == work.instances[i]
             old == db.instances[i]
             mid == upsertInstances(work.instances, s, m)[i]
             new == work'.instances[i]
             hit == Hosts(s, i) \cap tx.done # {}
  <2>1. /\ row = None \/ (row \in InstanceRow /\ row.observed_at \in Nat
                              /\ row.completed_at \in Nat /\ row.machine_id \in Machines)
        /\ old = None \/ (old \in InstanceRow /\ old.observed_at \in Nat
                              /\ old.completed_at \in Nat)
    BY <1>4 DEF InstanceTable, InstanceRow
  <2>2. mid = IF v # None /\ Supersedes(v.observed_at, s.completed_at, row)
              THEN [observed_at |-> v.observed_at, completed_at |-> s.completed_at,
                    active |-> TRUE, machine_id |-> m]
              ELSE row
    BY DEF upsertInstances
  <2>3. mid = None \/ mid \in InstanceRow
    BY <1>1, <1>4, InstanceTableType DEF InstanceTable
  <2>4. new = IF /\ ~hasOperationError(s.machines[m].errors, "list_network_instances")
                 /\ mid # None /\ mid.machine_id = m /\ mid.active
                 /\ i \notin Listed(s.machines[m]) /\ mid.completed_at < s.completed_at
              THEN Deactivated(mid, s) ELSE mid
    BY <1>2 DEF markMissingInstancesInactive
  <2>5. v # None <=> i \in Listed(s.machines[m]) BY DEF Listed
  <2>6. m \in Hosts(s, i) <=> v # None BY <1>1, <2>5 DEF Hosts
  <2>7. hit => row # None /\ row.active /\ row.machine_id \in Hosts(s, i)
    BY <1>6 DEF InstanceProgress, s
  <2>8. ~hit => /\ row = old \/ (old # None /\ row # None /\ ~row.active
                                   /\ row.observed_at = old.observed_at)
                /\ row # None /\ row.active /\ row.machine_id \in tx.done =>
                     s.machines[row.machine_id].errors # {}
    BY <1>6 DEF InstanceProgress, s
  <2>9. old # None => old.observed_at < s.started_at /\ old.completed_at < s.started_at
    BY <1>5 DEF AllOlder
  <2>10. v # None => v.observed_at \in Nat /\ s.started_at <= v.observed_at
    BY <1>1, <2>5, ViewTypes DEF InWindow
  <2>11. v # None /\ Supersedes(v.observed_at, s.completed_at, row) =>
           mid.active /\ mid.machine_id = m /\ mid # None
    <3> SUFFICES ASSUME v # None, Supersedes(v.observed_at, s.completed_at, row)
                 PROVE  mid.active /\ mid.machine_id = m /\ mid # None
      OBVIOUS
    <3>1. mid = [observed_at |-> v.observed_at, completed_at |-> s.completed_at,
                 active |-> TRUE, machine_id |-> m]
      BY <2>2
    <3> HIDE DEF mid, v
    <3>2. mid \in InstanceRow BY <1>7, <2>10, <3>1 DEF InstanceRow
    <3> QED BY <3>1, <3>2, NoRowAssumption
  <2> HIDE DEF v, row, old, mid, new
  <2>12. CASE v # None
    <3>1. new = mid BY <2>4, <2>5, <2>12
    <3>2. mid # None /\ mid.active /\ mid.machine_id \in Hosts(s, i)
      <4>1. CASE Supersedes(v.observed_at, s.completed_at, row)
        BY <2>6, <2>11, <2>12, <4>1
      <4>2. CASE ~Supersedes(v.observed_at, s.completed_at, row)
        <5>1. mid = row /\ row # None BY <2>2, <4>2 DEF Supersedes
        <5>2. hit
          <6> SUFFICES ASSUME ~hit PROVE FALSE OBVIOUS
          <6>1. old # None /\ row.observed_at = old.observed_at BY <2>8, <5>1
          <6>2. row.observed_at < v.observed_at
            BY <1>7, <2>1, <2>9, <2>10, <2>12, <6>1
          <6> QED BY <4>2, <6>2 DEF Supersedes
        <5> QED BY <2>7, <5>1, <5>2
      <4> QED BY <4>1, <4>2
    <3>3. Hosts(tx'.snapshot, i) = Hosts(s, i) BY <1>3
    <3>4. Hosts(tx'.snapshot, i) \cap tx'.done # {} BY <1>3, <2>6, <2>12, <3>3
    <3> QED BY <1>3, <3>1, <3>2, <3>3, <3>4 DEF InstanceProgress, new
  <2>13. CASE v = None
    <3>1. mid = row BY <2>2, <2>13
    <3>2. Hosts(tx'.snapshot, i) \cap tx'.done = Hosts(s, i) \cap tx.done
      BY <1>3, <2>6, <2>13
    <3>3. CASE hit
      <4>1. row.machine_id # m BY <2>6, <2>7, <2>13, <3>3
      <4>2. new = row BY <2>4, <3>1, <4>1
      <4> QED BY <1>3, <2>7, <3>2, <3>3, <4>2 DEF InstanceProgress, new
    <3>4. CASE ~hit
      <4>1. \/ new = row
            \/ /\ row # None /\ row.active /\ new # None /\ ~new.active
               /\ new.observed_at = row.observed_at
        BY <1>1, <2>1, <2>4, <3>1, DeactivatedInstance
      <4>2. new = old \/ (old # None /\ new # None /\ ~new.active
                             /\ new.observed_at = old.observed_at)
        BY <2>8, <3>4, <4>1
      <4>3. new # None /\ new.active /\ new.machine_id \in tx'.done =>
              s.machines[new.machine_id].errors # {}
        <5> SUFFICES ASSUME new # None, new.active, new.machine_id \in tx'.done
                     PROVE  s.machines[new.machine_id].errors # {}
          OBVIOUS
        <5>1. new = row /\ row # None BY <4>1
        <5>2. CASE row.machine_id \in tx.done BY <2>8, <3>4, <5>1, <5>2
        <5>3. CASE row.machine_id = m
          <6>1. row = old BY <2>8, <3>4, <5>1
          <6>2. row.completed_at < s.completed_at
            BY <1>7, <2>1, <2>9, <5>1, <6>1
          <6>3. i \notin Listed(s.machines[m]) BY <2>5, <2>13
          <6>4. CASE hasOperationError(s.machines[m].errors, "list_network_instances")
            BY <5>1, <5>3, <6>4 DEF hasOperationError
          <6>5. CASE ~hasOperationError(s.machines[m].errors, "list_network_instances")
            <7>1. new = Deactivated(row, s)
              BY <2>4, <3>1, <5>1, <5>3, <6>2, <6>3, <6>5
            <7>2. row \in InstanceRow BY <2>1, <5>1
            <7> QED BY <1>1, <7>1, <7>2, DeactivatedInstance
          <6> QED BY <6>4, <6>5
        <5> QED BY <1>3, <5>1, <5>2, <5>3
      <4>4. ~(Hosts(tx'.snapshot, i) \cap tx'.done # {}) BY <3>2, <3>4
      <4> QED BY <1>3, <4>2, <4>3, <4>4 DEF InstanceProgress, new, old
    <3> QED BY <3>3, <3>4
  <2> QED BY <2>12, <2>13
<1> QED BY <1>9, <1>10

LEMMA InitFreshInv == Init => FreshInv
<1> SUFFICES ASSUME Init PROVE FreshInv OBVIOUS
<1>1. TxInv BY InitTxInv
<1>2. RowsBounded(db) /\ RowsBounded(work) BY DEF Init, RowsBounded
<1> QED BY <1>1, <1>2 DEF Init, FreshInv, FreshProgress

LEMMA NextFreshInv == FreshInv /\ [Next]_vars => FreshInv'
<1> SUFFICES ASSUME FreshInv, [Next]_vars PROVE FreshInv' OBVIOUS
<1>1. TxInv' BY NextTxInv DEF FreshInv
<1>2. ASSUME NEW s \in Snapshots, IngestInvalid(s) \/ IngestDuplicate(s)
      PROVE  RowsBounded(db)' /\ RowsBounded(work)' /\ FreshProgress'
  BY <1>2 DEF IngestInvalid, IngestDuplicate, FreshInv, Idle, FreshProgress
<1>3. ASSUME NEW s \in Snapshots, IngestBegin(s)
      PROVE  RowsBounded(db)' /\ RowsBounded(work)' /\ FreshProgress'
  <2>1. RowsBounded(work') /\ FreshProgress' BY <1>3, BeginKeepsFresh
  <2>2. db' = db BY <1>3 DEF IngestBegin
  <2> QED BY <2>1, <2>2 DEF FreshInv
<1>4. ASSUME NEW m \in Machines, IngestMachine(m)
      PROVE  RowsBounded(db)' /\ RowsBounded(work)' /\ FreshProgress'
  <2>1. RowsBounded(work') /\ FreshProgress'
    BY <1>4, MachineKeepsBounds, MachineKeepsFresh DEF FreshInv
  <2>2. db' = db BY <1>4 DEF IngestMachine
  <2> QED BY <2>1, <2>2 DEF FreshInv
<1>5. CASE Rollback
  <2>1. work' = db /\ db' = db /\ tx' = None BY <1>5 DEF Rollback
  <2> QED BY <1>1, <2>1 DEF FreshInv, FreshProgress
<1>6. CASE IngestCommit
  <2>1. RowsBounded(work') BY <1>6, CommitKeepsBounds DEF FreshInv
  <2>2. db' = work' /\ tx' = None BY <1>6 DEF IngestCommit
  <2> QED BY <1>1, <2>1, <2>2 DEF FreshInv, FreshProgress
<1>7. CASE UNCHANGED vars
  <2>1. db' = db /\ work' = work /\ tx' = tx BY <1>7 DEF vars
  <2>2. FreshProgress' = FreshProgress
    BY <2>1 DEF FreshProgress, MachineProgress, InstanceProgress, Fresh, Ingested
  <2> QED BY <1>1, <2>1, <2>2 DEF FreshInv
<1> QED BY <1>1, <1>2, <1>3, <1>4, <1>5, <1>6, <1>7 DEF Next, FreshInv

(* What the commit of a fresh snapshot leaves.                             *)
LEMMA FreshCommit ==
  ASSUME FreshInv, IngestCommit, Fresh(tx.snapshot), InWindow(tx.snapshot)
  PROVE  Converged(db', tx.snapshot)
<1> DEFINE s == tx.snapshot
<1>1. s \in Snapshots /\ tx # None
  BY TransactionTypes DEF IngestCommit, FreshInv, TxInv, Idle
<1>2. /\ db'.machines = MissingMachines(work.machines, s)
      /\ db'.instances = InstancesOfMissingMachines(work.instances, s)
  BY <1>1, AfterMarkingFields DEF IngestCommit, FreshInv, TxInv, TypeOK
<1>3. tx.done = Reported(s)
  BY <1>1 DEF IngestCommit, Remaining, FreshInv, TxInv, TransactionInv
<1>4. /\ \A m \in Machines : MachineProgress(m)
      /\ \A i \in Instances : InstanceProgress(i)
  BY <1>1 DEF FreshInv, FreshProgress
<1>5. AllOlder(db, s) BY <1>1, FreshMeansOlder DEF FreshInv, TxInv
<1>6. s.started_at \in Nat /\ s.completed_at \in Nat /\ s.started_at <= s.completed_at
  BY <1>1, SnapshotTypes DEF FreshInv, TxInv, TransactionInv, Validate
<1>7. \A m \in Machines : db.machines[m] # None =>
        db.machines[m] \in MachineRow /\ db.machines[m].completed_at < s.completed_at
  <2>1. \A m \in Machines : db.machines[m] # None =>
          db.machines[m] \in MachineRow /\ db.machines[m].completed_at \in Nat
    BY DEF FreshInv, TxInv, TypeOK, Tables, MachineRow
  <2> QED BY <1>5, <1>6, <2>1 DEF AllOlder
<1>8. \A i \in Instances : db.instances[i] # None =>
        db.instances[i] \in InstanceRow /\ db.instances[i].completed_at < s.completed_at
  <2>1. \A i \in Instances : db.instances[i] # None =>
          db.instances[i] \in InstanceRow /\ db.instances[i].completed_at \in Nat
    BY DEF FreshInv, TxInv, TypeOK, Tables, InstanceRow
  <2> QED BY <1>5, <1>6, <2>1 DEF AllOlder
<1>9. ASSUME NEW m \in Reported(s)
      PROVE  db'.machines[m] # None /\ db'.machines[m].active
  <2>1. m \in Machines BY DEF Reported
  <2>2. db'.machines[m] = work.machines[m] BY <1>2, <2>1 DEF MissingMachines
  <2> QED BY <1>3, <1>4, <2>1, <2>2 DEF MachineProgress
<1>10. ASSUME NEW i \in Instances, Hosts(s, i) # {}
       PROVE  /\ db'.instances[i] # None /\ db'.instances[i].active
              /\ db'.instances[i].machine_id \in Hosts(s, i)
  <2>1. Hosts(s, i) \subseteq Reported(s) BY DEF Hosts
  <2>2. Hosts(s, i) \cap tx.done # {} BY <1>3, <1>10, <2>1
  <2>3. /\ work.instances[i] # None /\ work.instances[i].active
        /\ work.instances[i].machine_id \in Hosts(s, i)
    BY <1>4, <2>2 DEF InstanceProgress
  <2>4. db'.instances[i] = work.instances[i]
    BY <1>2, <2>1, <2>3 DEF InstancesOfMissingMachines
  <2> QED BY <2>3, <2>4
<1>11. ASSUME s.errors = {}, NEW m \in Machines \ Reported(s), db'.machines[m] # None
       PROVE  ~db'.machines[m].active
  <2> DEFINE row == db.machines[m]
  <2>1. work.machines[m] = row BY <1>3, <1>4 DEF MachineProgress
  <2>2. db'.machines[m] = IF row # None /\ row.active /\ row.completed_at < s.completed_at
                          THEN Deactivated(row, s) ELSE row
    BY <1>2, <1>11, <2>1 DEF MissingMachines
  <2>3. row = None \/ (row \in MachineRow /\ row.completed_at < s.completed_at) BY <1>7
  <2> HIDE DEF row, s
  <2> QED BY <1>1, <1>11, <2>2, <2>3, DeactivatedMachine
<1>12. ASSUME s.errors = {}, NEW i \in Instances, Hosts(s, i) = {},
              db'.instances[i] # None, db'.instances[i].active
       PROVE  LET m == db'.instances[i].machine_id IN
                m \in Reported(s) /\ s.machines[m].errors # {}
  <2> DEFINE row == work.instances[i]
  <2>1. /\ row = db.instances[i] \/ (row # None /\ ~row.active)
        /\ row # None /\ row.active /\ row.machine_id \in tx.done =>
             s.machines[row.machine_id].errors # {}
    <3>1. ~(Hosts(s, i) \cap tx.done # {}) BY <1>12
    <3> QED BY <1>4, <3>1 DEF InstanceProgress
  <2>2. db'.instances[i] =
          IF row # None /\ row.active /\ row.machine_id \notin Reported(s)
                /\ row.completed_at < s.completed_at
          THEN Deactivated(row, s) ELSE row
    BY <1>2, <1>12 DEF InstancesOfMissingMachines
  <2>3. db.instances[i] = None \/ (db.instances[i] \in InstanceRow
                                      /\ db.instances[i].completed_at < s.completed_at)
    BY <1>8
  <2> HIDE DEF row, s
  <2>4. CASE row = None BY <1>12, <2>2, <2>4
  <2>5. CASE row # None /\ ~row.active BY <1>12, <2>2, <2>5
  <2>6. CASE row # None /\ row.active
    <3>1. row \in InstanceRow /\ row.completed_at < s.completed_at BY <2>1, <2>3, <2>6
    <3>2. CASE row.machine_id \notin Reported(s)
      <4>1. db'.instances[i] = Deactivated(row, s) BY <2>2, <2>6, <3>1, <3>2
      <4> QED BY <1>1, <1>12, <3>1, <4>1, DeactivatedInstance
    <3>3. CASE row.machine_id \in Reported(s)
      <4>1. db'.instances[i] = row BY <2>2, <3>3
      <4> QED BY <1>3, <2>1, <2>6, <3>3, <4>1
    <3> QED BY <3>2, <3>3
  <2> QED BY <2>4, <2>5, <2>6
<1> QED BY <1>9, <1>10, <1>11, <1>12 DEF Converged

(* Whatever was delivered before, late or twice, the commit of a snapshot  *)
(* that was started after every ingested one had completed brings the      *)
(* activity of all machines and instances back in line with it.            *)
THEOREM FreshConverges == Spec => FreshCommitConverges
<1>1. ASSUME FreshInv, [Next]_vars, Committing PROVE IngestCommit
  BY <1>1 DEF Committing, Next, vars, IngestInvalid, IngestBegin, IngestDuplicate,
              IngestMachine, Rollback
<1>2. FreshInv /\ [Next]_vars =>
       [Committing /\ Fresh(tx.snapshot) /\ InWindow(tx.snapshot)
          => Converged(db', tx.snapshot)]_vars
  BY <1>1, FreshCommit
<1> QED BY InitFreshInv, NextFreshInv, <1>2, PTL DEF Spec, FreshCommitConverges

-----------------------------------------------------------------------------
(* Every row is the latest, and the samples are those of the runs. Its     *)
(* argument: the committed tables reflect all machines of all their runs,  *)
(* and the working tables those of the committed runs and the machines the *)
(* open transaction has done; each statement adds one machine's view.      *)

(* Tables t, worked on by transaction x (None: by no one), reflect what    *)
(* collection c says of machine m, or of instance i on it.                 *)
Seen(t, x, c, m) ==
  /\ t.runs[c] # None /\ m \in Reported(t.runs[c])
  /\ x # None /\ c = x.snapshot.collection_id => m \in x.done

View(t, c, m, i) == t.runs[c].machines[m].instances[i]

Sees(t, x, c, m, i) == Seen(t, x, c, m) /\ View(t, c, m, i) # None

MachineLatest(t, x, m) ==
  LET row == t.machines[m] IN
  /\ \A c \in Collections : Seen(t, x, c, m) =>
       row # None /\ t.runs[c].machines[m].observed_at <= row.observed_at
  /\ row # None => /\ Seen(t, x, row.source, m)
                   /\ t.runs[row.source].machines[m].observed_at = row.observed_at

InstanceLatest(t, x, i) ==
  LET row == t.instances[i] IN
  /\ \A c \in Collections, m \in Machines : Sees(t, x, c, m, i) =>
       row # None /\ View(t, c, m, i).observed_at <= row.observed_at
  /\ row # None => \E c \in Collections :
       /\ Sees(t, x, c, row.machine_id, i)
       /\ View(t, c, row.machine_id, i).observed_at = row.observed_at

NodeLatest(t, x, i) ==
  LET row == t.nodes[i] IN
  /\ \A c \in Collections, m \in Machines : Sees(t, x, c, m, i) /\ View(t, c, m, i).node =>
       row # None /\ View(t, c, m, i).observed_at <= row.observed_at
  /\ row # None => \E m \in Machines :
       /\ Sees(t, x, row.source, m, i) /\ View(t, row.source, m, i).node
       /\ View(t, row.source, m, i).observed_at = row.observed_at

SampleMatches(t, x, c, i, e) ==
  <<c, i, e>> \in t.samples <=>
    \E m \in Machines : Sees(t, x, c, m, i) /\ e \in View(t, c, m, i).metrics

AllLatest(t, x) ==
  /\ \A m \in Machines : MachineLatest(t, x, m)
  /\ \A i \in Instances : InstanceLatest(t, x, i) /\ NodeLatest(t, x, i)
  /\ \A c \in Collections, i \in Instances, e \in Metrics : SampleMatches(t, x, c, i, e)

LatestInv == TxInv /\ AllLatest(db, None) /\ AllLatest(work, tx)

(* What one statement block adds to what the working tables reflect.       *)
LEMMA MachineSees ==
  ASSUME TxInv, NEW m \in Machines, IngestMachine(m)
  PROVE  /\ tx.snapshot \in Snapshots /\ m \in Reported(tx.snapshot)
         /\ tx.snapshot.collection_id \in Collections
         /\ work.runs[tx.snapshot.collection_id] = tx.snapshot
         /\ work' = ingestMachine(work, tx.snapshot, m)
         /\ work \in Tables /\ work' \in Tables /\ work'.runs = work.runs
         /\ \A c \in Collections, n \in Machines :
              Seen(work', tx', c, n) <=>
                Seen(work, tx, c, n) \/ (c = tx.snapshot.collection_id /\ n = m)
<1> DEFINE s == tx.snapshot
<1>1. /\ tx \in Transaction /\ s \in Snapshots /\ m \in Reported(s) /\ tx # None
  BY TransactionTypes DEF IngestMachine, TxInv, Idle
<1>2. /\ work \in Tables /\ work' \in Tables /\ work'.runs = work.runs
      /\ work' = ingestMachine(work, s, m)
  BY <1>1, AfterMachineFields DEF IngestMachine, TxInv, TypeOK
<1>3. s.collection_id \in Collections /\ s # None
  BY <1>1, SnapshotTypes
<1>4. work.runs[s.collection_id] = s
  <2>1. db.runs \in [Collections -> Snapshots \cup {None}]
    BY DEF TxInv, TypeOK, Tables
  <2> QED BY <1>1, <1>3, <2>1 DEF TxInv, TransactionInv
<1>5. /\ tx' \in Transaction /\ tx'.snapshot = s /\ tx'.done = tx.done \cup {m}
  BY <1>1 DEF IngestMachine, Transaction
<1>6. tx' # None BY <1>5, NoRowAssumption
<1> HIDE DEF s
<1>7. \A c \in Collections, n \in Machines :
        Seen(work', tx', c, n) <=> Seen(work, tx, c, n) \/ (c = s.collection_id /\ n = m)
  BY <1>1, <1>2, <1>3, <1>4, <1>5, <1>6 DEF Seen, s
<1> QED BY <1>1, <1>2, <1>3, <1>4, <1>7 DEF s

LEMMA MachineStepMachines ==
  ASSUME TxInv, NEW m \in Machines, IngestMachine(m), NEW n \in Machines,
         MachineLatest(work, tx, n)
  PROVE  MachineLatest(work', tx', n)
<1> DEFINE s == tx.snapshot
           row == work.machines[n]
           new == work'.machines[n]
<1>1. /\ s \in Snapshots /\ m \in Reported(s) /\ s.collection_id \in Collections
      /\ work.runs[s.collection_id] = s /\ work \in Tables /\ work'.runs = work.runs
      /\ \A c \in Collections, k \in Machines :
           Seen(work', tx', c, k) <=>
             Seen(work, tx, c, k) \/ (c = s.collection_id /\ k = m)
      /\ work'.machines = upsertMachine(work.machines, s, m)
  BY MachineSees, AfterMachineFields
<1>2. work.machines \in MachineTable /\ work'.machines \in MachineTable
  BY <1>1, MachineTableType DEF Tables, MachineTable
<1>3. row # None => row \in MachineRow /\ row.observed_at \in Nat /\ row.source \in Collections
  BY <1>2 DEF MachineTable, MachineRow
<1>4. s.machines[m].observed_at \in Nat BY <1>1, ViewTypes
<1>5. \A c \in Collections : Seen(work, tx, c, n) =>
        work.runs[c] \in Snapshots /\ work.runs[c].machines[n].observed_at \in Nat
  BY <1>1, ViewTypes DEF Seen, Tables
<1>6. CASE n # m
  <2>1. new = row BY <1>1, <1>2, <1>6 DEF upsertMachine, MachineTable
  <2> QED BY <1>1, <1>3, <1>6, <2>1 DEF MachineLatest
<1>7. CASE n = m /\ ~Supersedes(s.machines[m].observed_at, s.completed_at, row)
  <2>1. new = row /\ row # None BY <1>1, <1>7 DEF upsertMachine, Supersedes
  <2>2. s.machines[m].observed_at <= row.observed_at
    BY <1>3, <1>4, <1>7, <2>1 DEF Supersedes
  <2> QED BY <1>1, <1>3, <1>7, <2>1, <2>2 DEF MachineLatest
<1>8. CASE n = m /\ Supersedes(s.machines[m].observed_at, s.completed_at, row)
  <2>1. new = [observed_at |-> s.machines[m].observed_at, completed_at |-> s.completed_at,
               active |-> TRUE, source |-> s.collection_id]
    BY <1>1, <1>2, <1>8 DEF upsertMachine, MachineTable
  <2>2. new \in MachineRow
    BY <1>1, <1>4, <2>1, SnapshotTypes DEF MachineRow
  <2>3. new # None BY <2>2, NoRowAssumption
  <2>4. new.source = s.collection_id /\ new.observed_at = s.machines[m].observed_at
    BY <2>1
  <2>5. row # None => row.observed_at <= s.machines[m].observed_at
    BY <1>3, <1>4, <1>8 DEF Supersedes
  <2> HIDE DEF new, s
  <2>6. ASSUME NEW c \in Collections, Seen(work', tx', c, m)
        PROVE  work'.runs[c].machines[m].observed_at <= new.observed_at
    <3>1. CASE c = s.collection_id BY <1>1, <1>4, <2>4, <3>1
    <3>2. CASE c # s.collection_id
      <4>1. Seen(work, tx, c, m) BY <1>1, <2>6, <3>2
      <4>2. row # None /\ work.runs[c].machines[m].observed_at <= row.observed_at
        BY <1>8, <4>1 DEF MachineLatest
      <4> QED BY <1>1, <1>3, <1>4, <1>5, <1>8, <2>4, <2>5, <4>1, <4>2
    <3> QED BY <3>1, <3>2
  <2>7. Seen(work', tx', s.collection_id, m) BY <1>1
  <2> QED BY <1>1, <1>8, <2>3, <2>4, <2>6, <2>7 DEF MachineLatest, new
<1> QED BY <1>6, <1>7, <1>8

(* Marking keeps what a row was observed with.                             *)
LEMMA MarkedInstances ==
  ASSUME NEW rows \in InstanceTable, NEW s \in Snapshots, NEW m, NEW i \in Instances
  PROVE  /\ markMissingInstancesInactive(rows, s, m)[i] = None <=> rows[i] = None
         /\ rows[i] # None =>
              /\ markMissingInstancesInactive(rows, s, m)[i].observed_at = rows[i].observed_at
              /\ markMissingInstancesInactive(rows, s, m)[i].machine_id = rows[i].machine_id
<1> DEFINE row == markMissingInstancesInactive(rows, s, m)[i]
<1>1. rows[i] = None \/ rows[i] \in InstanceRow BY DEF InstanceTable
<1>2. row = rows[i] \/ (rows[i] # None /\ row = Deactivated(rows[i], s))
  BY DEF markMissingInstancesInactive
<1> HIDE DEF row
<1>3. /\ row = None <=> rows[i] = None
      /\ rows[i] # None => row.observed_at = rows[i].observed_at /\ row.machine_id = rows[i].machine_id
  BY <1>1, <1>2, DeactivatedInstance
<1> QED BY <1>3 DEF row

LEMMA OrphanedInstances ==
  ASSUME NEW rows \in InstanceTable, NEW s \in Snapshots, NEW i \in Instances
  PROVE  /\ InstancesOfMissingMachines(rows, s)[i] = None <=> rows[i] = None
         /\ rows[i] # None =>
              /\ InstancesOfMissingMachines(rows, s)[i].observed_at = rows[i].observed_at
              /\ InstancesOfMissingMachines(rows, s)[i].machine_id = rows[i].machine_id
<1> DEFINE row == InstancesOfMissingMachines(rows, s)[i]
<1>1. rows[i] = None \/ rows[i] \in InstanceRow BY DEF InstanceTable
<1>2. row = rows[i] \/ (rows[i] # None /\ row = Deactivated(rows[i], s))
  BY DEF InstancesOfMissingMachines
<1> HIDE DEF row
<1>3. /\ row = None <=> rows[i] = None
      /\ rows[i] # None => row.observed_at = rows[i].observed_at /\ row.machine_id = rows[i].machine_id
  BY <1>1, <1>2, DeactivatedInstance
<1> QED BY <1>3 DEF row

LEMMA MarkingMachines ==
  ASSUME NEW rows \in MachineTable, NEW s \in Snapshots, NEW m \in Machines
  PROVE  /\ MissingMachines(rows, s)[m] = None <=> rows[m] = None
         /\ rows[m] # None =>
              /\ MissingMachines(rows, s)[m].observed_at = rows[m].observed_at
              /\ MissingMachines(rows, s)[m].source = rows[m].source
<1> DEFINE row == MissingMachines(rows, s)[m]
<1>1. rows[m] = None \/ rows[m] \in MachineRow BY DEF MachineTable
<1>2. row = rows[m] \/ (rows[m] # None /\ row = Deactivated(rows[m], s))
  BY DEF MissingMachines
<1>3. rows[m] \in MachineRow => Deactivated(rows[m], s).source = rows[m].source
  BY DEF Deactivated, MachineRow
<1> HIDE DEF row
<1>4. /\ row = None <=> rows[m] = None
      /\ rows[m] # None => row.observed_at = rows[m].observed_at /\ row.source = rows[m].source
  BY <1>1, <1>2, <1>3, DeactivatedMachine
<1> QED BY <1>4 DEF row

LEMMA MachineStepInstances ==
  ASSUME TxInv, NEW m \in Machines, IngestMachine(m), NEW i \in Instances,
         InstanceLatest(work, tx, i)
  PROVE  InstanceLatest(work', tx', i)
<1> DEFINE s == tx.snapshot
           v == s.machines[m].instances[i]
           row == work.instances[i]
           mid == upsertInstances(work.instances, s, m)[i]
           new == work'.instances[i]
<1>1. /\ s \in Snapshots /\ m \in Reported(s) /\ s.collection_id \in Collections
      /\ work.runs[s.collection_id] = s /\ work \in Tables /\ work'.runs = work.runs
      /\ \A c \in Collections, k \in Machines :
           Seen(work', tx', c, k) <=>
             Seen(work, tx, c, k) \/ (c = s.collection_id /\ k = m)
      /\ work'.instances =
           markMissingInstancesInactive(upsertInstances(work.instances, s, m), s, m)
  BY MachineSees, AfterMachineFields
<1>2. work.instances \in InstanceTable /\ upsertInstances(work.instances, s, m) \in InstanceTable
  BY <1>1, InstanceTableType DEF Tables, InstanceTable
<1>3. /\ row # None => /\ row \in InstanceRow /\ row.observed_at \in Nat
                       /\ row.machine_id \in Machines
      /\ mid # None => mid \in InstanceRow
  BY <1>2 DEF InstanceTable, InstanceRow
<1>4. v # None => v.observed_at \in Nat BY <1>1, ViewTypes
<1>5. ASSUME NEW c \in Collections, NEW k \in Machines, Sees(work, tx, c, k, i)
      PROVE  View(work, c, k, i).observed_at \in Nat
  <2>1. work.runs[c] \in Snapshots /\ k \in Reported(work.runs[c])
    BY <1>1, <1>5 DEF Sees, Seen, Tables
  <2> QED BY <1>5, <2>1, ViewTypes DEF Sees, View
<1>6. /\ new = None <=> mid = None
      /\ mid # None => new.observed_at = mid.observed_at /\ new.machine_id = mid.machine_id
  <2> DEFINE rows == upsertInstances(work.instances, s, m)
  <2>1. new = markMissingInstancesInactive(rows, s, m)[i] BY <1>1
  <2>2. rows \in InstanceTable /\ s \in Snapshots /\ mid = rows[i] BY <1>1, <1>2
  <2> HIDE DEF rows, s, mid, new
  <2> QED BY <2>1, <2>2, MarkedInstances
<1>7. \A c \in Collections, k \in Machines :
        /\ View(work', c, k, i) = View(work, c, k, i)
        /\ Sees(work', tx', c, k, i) <=>
             Sees(work, tx, c, k, i) \/ (c = s.collection_id /\ k = m /\ v # None)
  BY <1>1 DEF Sees, View
<1>8. View(work, s.collection_id, m, i) = v BY <1>1 DEF View
<1>9. mid = IF v # None /\ Supersedes(v.observed_at, s.completed_at, row)
            THEN [observed_at |-> v.observed_at, completed_at |-> s.completed_at,
                  active |-> TRUE, machine_id |-> m]
            ELSE row
  BY DEF upsertInstances
<1>10. /\ \A c \in Collections, k \in Machines : Sees(work, tx, c, k, i) =>
           row # None /\ View(work, c, k, i).observed_at <= row.observed_at
       /\ row # None => \E c \in Collections :
           /\ Sees(work, tx, c, row.machine_id, i)
           /\ View(work, c, row.machine_id, i).observed_at = row.observed_at
  BY DEF InstanceLatest
<1> HIDE DEF s, v, row, mid
<1>11. CASE v = None
  <2>1. mid = row BY <1>9, <1>11
  <2> HIDE DEF new
  <2>2. \A c \in Collections, k \in Machines : Sees(work', tx', c, k, i) =>
          new # None /\ View(work', c, k, i).observed_at <= new.observed_at
    BY <1>6, <1>7, <1>10, <1>11, <2>1
  <2>3. new # None => \E c \in Collections :
          /\ Sees(work', tx', c, new.machine_id, i)
          /\ View(work', c, new.machine_id, i).observed_at = new.observed_at
    BY <1>3, <1>6, <1>7, <1>10, <2>1
  <2> QED BY <2>2, <2>3 DEF InstanceLatest, new
<1>12. CASE v # None /\ ~Supersedes(v.observed_at, s.completed_at, row)
  <2>1. mid = row /\ row # None BY <1>9, <1>12 DEF Supersedes
  <2>2. v.observed_at <= row.observed_at
    BY <1>3, <1>4, <1>12, <2>1 DEF Supersedes
  <2> HIDE DEF new
  <2>3. \A c \in Collections, k \in Machines : Sees(work', tx', c, k, i) =>
          new # None /\ View(work', c, k, i).observed_at <= new.observed_at
    BY <1>6, <1>7, <1>8, <1>10, <2>1, <2>2
  <2>4. new # None => \E c \in Collections :
          /\ Sees(work', tx', c, new.machine_id, i)
          /\ View(work', c, new.machine_id, i).observed_at = new.observed_at
    BY <1>3, <1>6, <1>7, <1>10, <2>1
  <2> QED BY <2>3, <2>4 DEF InstanceLatest, new
<1>13. CASE v # None /\ Supersedes(v.observed_at, s.completed_at, row)
  <2>1. mid = [observed_at |-> v.observed_at, completed_at |-> s.completed_at,
               active |-> TRUE, machine_id |-> m]
    BY <1>9, <1>13
  <2>2. mid \in InstanceRow BY <1>1, <1>4, <1>13, <2>1, SnapshotTypes DEF InstanceRow
  <2>3. mid # None BY <2>2, NoRowAssumption
  <2>4. new # None /\ new.machine_id = m /\ new.observed_at = v.observed_at
    BY <1>6, <2>1, <2>3
  <2>5. row # None => row.observed_at <= v.observed_at
    BY <1>3, <1>4, <1>13 DEF Supersedes
  <2> HIDE DEF new
  <2>6. ASSUME NEW c \in Collections, NEW k \in Machines, Sees(work', tx', c, k, i)
        PROVE  View(work', c, k, i).observed_at <= new.observed_at
    <3>1. CASE c = s.collection_id /\ k = m
      <4>1. View(work', c, k, i).observed_at = v.observed_at BY <1>7, <1>8, <3>1
      <4> QED BY <1>4, <1>13, <2>4, <4>1
    <3>2. CASE ~(c = s.collection_id /\ k = m)
      <4>1. Sees(work, tx, c, k, i) BY <1>7, <2>6, <3>2
      <4>2. row # None /\ View(work, c, k, i).observed_at <= row.observed_at
        BY <1>10, <4>1
      <4>3. View(work, c, k, i).observed_at \in Nat BY <1>5, <4>1
      <4>4. View(work, c, k, i).observed_at <= v.observed_at
        BY <1>3, <1>4, <1>13, <2>5, <4>2, <4>3
      <4> QED BY <1>7, <2>4, <4>4
    <3> QED BY <3>1, <3>2
  <2>7. /\ Sees(work', tx', s.collection_id, new.machine_id, i)
        /\ View(work', s.collection_id, new.machine_id, i).observed_at = new.observed_at
    BY <1>1, <1>7, <1>8, <1>13, <2>4
  <2> QED BY <1>1, <2>4, <2>6, <2>7 DEF InstanceLatest, new
<1> QED BY <1>11, <1>12, <1>13

LEMMA MachineStepNodes ==
  ASSUME TxInv, NEW m \in Machines, IngestMachine(m), NEW i \in Instances,
         NodeLatest(work, tx, i)
  PROVE  NodeLatest(work', tx', i)
<1> DEFINE s == tx.snapshot
           v == s.machines[m].instances[i]
           row == work.nodes[i]
           new == work'.nodes[i]
<1>1. /\ s \in Snapshots /\ m \in Reported(s) /\ s.collection_id \in Collections
      /\ work.runs[s.collection_id] = s /\ work \in Tables /\ work'.runs = work.runs
      /\ \A c \in Collections, k \in Machines :
           Seen(work', tx', c, k) <=>
             Seen(work, tx, c, k) \/ (c = s.collection_id /\ k = m)
      /\ work'.nodes = upsertNodes(work.nodes, s, m)
  BY MachineSees, AfterMachineFields
<1>2. work.nodes \in NodeTable BY <1>1 DEF Tables, NodeTable
<1>3. row # None => row \in NodeRow /\ row.observed_at \in Nat /\ row.source \in Collections
  BY <1>2 DEF NodeTable, NodeRow
<1>4. v # None => v.observed_at \in Nat BY <1>1, ViewTypes
<1>5. ASSUME NEW c \in Collections, NEW k \in Machines, Sees(work, tx, c, k, i)
      PROVE  View(work, c, k, i).observed_at \in Nat
  <2>1. work.runs[c] \in Snapshots /\ k \in Reported(work.runs[c])
    BY <1>1, <1>5 DEF Sees, Seen, Tables
  <2> QED BY <1>5, <2>1, ViewTypes DEF Sees, View
<1>7. \A c \in Collections, k \in Machines :
        /\ View(work', c, k, i) = View(work, c, k, i)
        /\ Sees(work', tx', c, k, i) <=>
             Sees(work, tx, c, k, i) \/ (c = s.collection_id /\ k = m /\ v # None)
  BY <1>1, Zenon DEF Sees, View
<1>8. View(work, s.collection_id, m, i) = v BY <1>1 DEF View
<1>9. new = IF v # None /\ v.node /\ Supersedes(v.observed_at, s.completed_at, row)
            THEN [observed_at |-> v.observed_at, completed_at |-> s.completed_at,
                  source |-> s.collection_id]
            ELSE row
  BY <1>1 DEF upsertNodes
<1>10. /\ \A c \in Collections, k \in Machines : Sees(work, tx, c, k, i) /\ View(work, c, k, i).node =>
           row # None /\ View(work, c, k, i).observed_at <= row.observed_at
       /\ row # None => \E k \in Machines :
           /\ Sees(work, tx, row.source, k, i) /\ View(work, row.source, k, i).node
           /\ View(work, row.source, k, i).observed_at = row.observed_at
  BY DEF NodeLatest
<1> HIDE DEF s, v, row, new
<1>11. CASE v = None \/ ~v.node
  <2>1. new = row BY <1>9, <1>11
  <2>2. \A c \in Collections, k \in Machines : Sees(work', tx', c, k, i) /\ View(work', c, k, i).node =>
          new # None /\ View(work', c, k, i).observed_at <= new.observed_at
    BY <1>7, <1>8, <1>10, <1>11, <2>1
  <2>3. new # None => \E k \in Machines :
          /\ Sees(work', tx', new.source, k, i) /\ View(work', new.source, k, i).node
          /\ View(work', new.source, k, i).observed_at = new.observed_at
    BY <1>3, <1>7, <1>10, <2>1
  <2> QED BY <2>2, <2>3 DEF NodeLatest, new
<1>12. CASE v # None /\ v.node /\ ~Supersedes(v.observed_at, s.completed_at, row)
  <2>1. new = row /\ row # None BY <1>9, <1>12 DEF Supersedes
  <2>2. v.observed_at <= row.observed_at
    BY <1>3, <1>4, <1>12, <2>1 DEF Supersedes
  <2>3. \A c \in Collections, k \in Machines : Sees(work', tx', c, k, i) /\ View(work', c, k, i).node =>
          new # None /\ View(work', c, k, i).observed_at <= new.observed_at
    BY <1>7, <1>8, <1>10, <2>1, <2>2
  <2>4. \E k \in Machines :
          /\ Sees(work', tx', new.source, k, i) /\ View(work', new.source, k, i).node
          /\ View(work', new.source, k, i).observed_at = new.observed_at
    BY <1>3, <1>7, <1>10, <2>1
  <2> QED BY <2>3, <2>4 DEF NodeLatest, new
<1>13. CASE v # None /\ v.node /\ Supersedes(v.observed_at, s.completed_at, row)
  <2>1. new = [observed_at |-> v.observed_at, completed_at |-> s.completed_at,
               source |-> s.collection_id]
    BY <1>9, <1>13
  <2>2. new \in NodeRow BY <1>1, <1>4, <1>13, <2>1, SnapshotTypes DEF NodeRow
  <2>3. new # None BY <2>2, NoRowAssumption
  <2>4. new.source = s.collection_id /\ new.observed_at = v.observed_at
    BY <2>1
  <2>5. row # None => row.observed_at <= v.observed_at
    BY <1>3, <1>4, <1>13 DEF Supersedes
  <2>6. ASSUME NEW c \in Collections, NEW k \in Machines, Sees(work', tx', c, k, i),
               View(work', c, k, i).node
        PROVE  View(work', c, k, i).observed_at <= new.observed_at
    <3>1. CASE c = s.collection_id /\ k = m
      <4>1. View(work', c, k, i).observed_at = v.observed_at BY <1>7, <1>8, <3>1
      <4> QED BY <1>4, <1>13, <2>4, <4>1
    <3>2. CASE ~(c = s.collection_id /\ k = m)
      <4>1. Sees(work, tx, c, k, i) /\ View(work, c, k, i).node BY <1>7, <2>6, <3>2
      <4>2. row # None /\ View(work, c, k, i).observed_at <= row.observed_at
        BY <1>10, <4>1
      <4>3. View(work, c, k, i).observed_at \in Nat BY <1>5, <4>1
      <4>4. View(work, c, k, i).observed_at <= v.observed_at
        BY <1>3, <1>4, <1>13, <2>5, <4>2, <4>3
      <4> QED BY <1>7, <2>4, <4>4
    <3> QED BY <3>1, <3>2
  <2>7. /\ Sees(work', tx', new.source, m, i) /\ View(work', new.source, m, i).node
        /\ View(work', new.source, m, i).observed_at = new.observed_at
    BY <1>1, <1>7, <1>8, <1>13, <2>4
  <2> QED BY <2>3, <2>6, <2>7 DEF NodeLatest, new
<1> QED BY <1>11, <1>12, <1>13

LEMMA MachineStepSamples ==
  ASSUME TxInv, NEW m \in Machines, IngestMachine(m), NEW c \in Collections,
         NEW i \in Instances, NEW e \in Metrics, SampleMatches(work, tx, c, i, e)
  PROVE  SampleMatches(work', tx', c, i, e)
<1> DEFINE s == tx.snapshot
           v == s.machines[m].instances[i]
<1>1. /\ s \in Snapshots /\ m \in Reported(s) /\ s.collection_id \in Collections
      /\ work.runs[s.collection_id] = s /\ work'.runs = work.runs
      /\ \A d \in Collections, k \in Machines :
           Seen(work', tx', d, k) <=>
             Seen(work, tx, d, k) \/ (d = s.collection_id /\ k = m)
      /\ work'.samples = work.samples \cup MetricKeys(s, m)
  BY MachineSees, AfterMachineFields
<1>2. <<c, i, e>> \in MetricKeys(s, m) <=> c = s.collection_id /\ v # None /\ e \in v.metrics
  BY DEF MetricKeys, Listed
<1>3. \A k \in Machines :
        /\ View(work', c, k, i) = View(work, c, k, i)
        /\ Sees(work', tx', c, k, i) <=>
             Sees(work, tx, c, k, i) \/ (c = s.collection_id /\ k = m /\ v # None)
  BY <1>1 DEF Sees, View
<1>4. c = s.collection_id => View(work, c, m, i) = v BY <1>1 DEF View
<1> HIDE DEF s, v
<1> QED BY <1>1, <1>2, <1>3, <1>4 DEF SampleMatches

(* Tables that reflect the same views and hold the same rows, up to their  *)
(* activity and collection time, are as late.                              *)
LEMMA SameViews ==
  ASSUME NEW t \in Tables, NEW u, NEW x, NEW y, AllLatest(t, x),
         \A c \in Collections, m \in Machines :
           /\ Seen(u, y, c, m) <=> Seen(t, x, c, m)
           /\ Seen(t, x, c, m) => u.runs[c] = t.runs[c],
         \A m \in Machines :
           /\ u.machines[m] = None <=> t.machines[m] = None
           /\ t.machines[m] # None =>
                /\ u.machines[m].observed_at = t.machines[m].observed_at
                /\ u.machines[m].source = t.machines[m].source,
         \A i \in Instances :
           /\ u.instances[i] = None <=> t.instances[i] = None
           /\ t.instances[i] # None =>
                /\ u.instances[i].observed_at = t.instances[i].observed_at
                /\ u.instances[i].machine_id = t.instances[i].machine_id,
         u.nodes = t.nodes, u.samples = t.samples
  PROVE  AllLatest(u, y)
<1>1. \A c \in Collections, m \in Machines, i \in Instances :
        /\ Sees(u, y, c, m, i) <=> Sees(t, x, c, m, i)
        /\ Sees(t, x, c, m, i) => View(u, c, m, i) = View(t, c, m, i)
  BY DEF Sees, View
<1>2. ASSUME NEW m \in Machines PROVE MachineLatest(u, y, m)
  <2>1. t.machines[m] # None => t.machines[m].source \in Collections
    BY DEF Tables, MachineRow
  <2>2. MachineLatest(t, x, m) BY DEF AllLatest
  <2> QED BY <2>1, <2>2 DEF MachineLatest
<1>3. ASSUME NEW i \in Instances PROVE InstanceLatest(u, y, i)
  <2>1. t.instances[i] # None => t.instances[i].machine_id \in Machines
    BY DEF Tables, InstanceRow
  <2>2. InstanceLatest(t, x, i) BY DEF AllLatest
  <2> QED BY <1>1, <2>1, <2>2 DEF InstanceLatest
<1>4. ASSUME NEW i \in Instances PROVE NodeLatest(u, y, i)
  <2>1. t.nodes[i] # None => t.nodes[i].source \in Collections
    BY DEF Tables, NodeRow
  <2>2. NodeLatest(t, x, i) BY DEF AllLatest
  <2> QED BY <1>1, <2>1, <2>2 DEF NodeLatest
<1>5. ASSUME NEW c \in Collections, NEW i \in Instances, NEW e \in Metrics
      PROVE  SampleMatches(u, y, c, i, e)
  <2>1. SampleMatches(t, x, c, i, e) BY DEF AllLatest
  <2> QED BY <1>1, <2>1 DEF SampleMatches
<1> QED BY <1>2, <1>3, <1>4, <1>5 DEF AllLatest

LEMMA BeginKeepsLatest ==
  ASSUME LatestInv, NEW s \in Snapshots, IngestBegin(s)
  PROVE  AllLatest(work', tx')
<1> DEFINE id == s.collection_id
<1>1. id \in Collections /\ s # None BY SnapshotTypes
<1>2. [snapshot |-> s, done |-> {}] \in Transaction /\ tx' = [snapshot |-> s, done |-> {}]
  BY DEF IngestBegin, Transaction
<1>3. tx' # None BY <1>2, NoRowAssumption
<1>4. work = db /\ work \in Tables /\ tx = None /\ work.runs[id] = None
  BY DEF IngestBegin, LatestInv, TxInv, TypeOK, WorkIsCommitted, Idle
<1>5. /\ work'.runs = [work.runs EXCEPT ![id] = s]
      /\ work'.machines = work.machines /\ work'.instances = work.instances
      /\ work'.nodes = work.nodes /\ work'.samples = work.samples
  BY <1>4 DEF IngestBegin, Tables
<1>6. work.runs \in [Collections -> Snapshots \cup {None}] BY <1>4 DEF Tables
<1>7. work'.runs[id] = s /\ \A c \in Collections : c # id => work'.runs[c] = work.runs[c]
  BY <1>1, <1>5, <1>6
<1>8. tx'.snapshot.collection_id = id /\ tx'.done = {} BY <1>2
<1> HIDE DEF id
<1>9. \A c \in Collections, m \in Machines :
        /\ Seen(work', tx', c, m) <=> Seen(work, tx, c, m)
        /\ Seen(work, tx, c, m) => work'.runs[c] = work.runs[c]
  BY <1>3, <1>4, <1>7, <1>8 DEF Seen
<1>10. AllLatest(work, tx) /\ work \in Tables BY <1>4 DEF LatestInv
<1>11. \A m \in Machines :
        /\ work'.machines[m] = None <=> work.machines[m] = None
        /\ work.machines[m] # None =>
             /\ work'.machines[m].observed_at = work.machines[m].observed_at
             /\ work'.machines[m].source = work.machines[m].source
  BY <1>5
<1>12. \A i \in Instances :
        /\ work'.instances[i] = None <=> work.instances[i] = None
        /\ work.instances[i] # None =>
             /\ work'.instances[i].observed_at = work.instances[i].observed_at
             /\ work'.instances[i].machine_id = work.instances[i].machine_id
  BY <1>5
<1>13. work'.nodes = work.nodes /\ work'.samples = work.samples BY <1>5
<1> QED BY <1>9, <1>10, <1>11, <1>12, <1>13, SameViews

LEMMA CommitKeepsLatest ==
  ASSUME LatestInv, IngestCommit
  PROVE  AllLatest(work', None)
<1> DEFINE s == tx.snapshot
<1>1. s \in Snapshots /\ tx # None
  BY TransactionTypes DEF IngestCommit, LatestInv, TxInv, Idle
<1>2. /\ work \in Tables /\ work'.runs = work.runs
      /\ work'.machines = MissingMachines(work.machines, s)
      /\ work'.instances = InstancesOfMissingMachines(work.instances, s)
      /\ work'.nodes = work.nodes /\ work'.samples = work.samples
  BY <1>1, AfterMarkingFields DEF IngestCommit, LatestInv, TxInv, TypeOK
<1>3. tx.done = Reported(s) /\ work.runs[s.collection_id] = s
  <2>1. tx.done = Reported(s)
    BY <1>1 DEF IngestCommit, Remaining, LatestInv, TxInv, TransactionInv
  <2>2. db.runs \in [Collections -> Snapshots \cup {None}] /\ s.collection_id \in Collections
    BY <1>1, SnapshotTypes DEF LatestInv, TxInv, TypeOK, Tables
  <2> QED BY <1>1, <2>1, <2>2 DEF LatestInv, TxInv, TransactionInv
<1>4. work.machines \in MachineTable /\ work.instances \in InstanceTable
  BY <1>2 DEF Tables, MachineTable, InstanceTable
<1>5. \A c \in Collections, m \in Machines :
        /\ Seen(work', None, c, m) <=> Seen(work, tx, c, m)
        /\ Seen(work, tx, c, m) => work'.runs[c] = work.runs[c]
  BY <1>1, <1>2, <1>3 DEF Seen
<1>6. \A m \in Machines :
        /\ work'.machines[m] = None <=> work.machines[m] = None
        /\ work.machines[m] # None =>
             /\ work'.machines[m].observed_at = work.machines[m].observed_at
             /\ work'.machines[m].source = work.machines[m].source
  BY <1>1, <1>2, <1>4, MarkingMachines
<1>7. \A i \in Instances :
        /\ work'.instances[i] = None <=> work.instances[i] = None
        /\ work.instances[i] # None =>
             /\ work'.instances[i].observed_at = work.instances[i].observed_at
             /\ work'.instances[i].machine_id = work.instances[i].machine_id
  <2> TAKE i \in Instances
  <2>2. work'.instances[i] = InstancesOfMissingMachines(work.instances, s)[i] BY <1>2
  <2>3. work.instances \in InstanceTable /\ s \in Snapshots BY <1>1, <1>4
  <2> HIDE DEF s
  <2> QED BY <2>2, <2>3, OrphanedInstances
<1>8. AllLatest(work, tx) BY DEF LatestInv
<1> QED BY <1>2, <1>5, <1>6, <1>7, <1>8, SameViews

LEMMA InitLatestInv == Init => LatestInv
<1> SUFFICES ASSUME Init PROVE LatestInv OBVIOUS
<1>1. TxInv BY InitTxInv
<1>2. /\ \A c \in Collections : db.runs[c] = None
      /\ \A m \in Machines : db.machines[m] = None
      /\ \A i \in Instances : db.instances[i] = None /\ db.nodes[i] = None
      /\ db.samples = {} /\ work = db /\ tx = None
  BY DEF Init
<1>3. AllLatest(db, None)
  BY <1>2 DEF AllLatest, MachineLatest, InstanceLatest, NodeLatest, SampleMatches, Sees, Seen
<1> QED BY <1>1, <1>2, <1>3 DEF LatestInv

LEMMA NextLatestInv == LatestInv /\ [Next]_vars => LatestInv'
<1> SUFFICES ASSUME LatestInv, [Next]_vars PROVE LatestInv' OBVIOUS
<1>1. TxInv' BY NextTxInv DEF LatestInv
<1>2. ASSUME db' = db, work' = work, tx' = tx PROVE LatestInv'
  BY <1>1, <1>2 DEF LatestInv
<1>3. ASSUME NEW s \in Snapshots, IngestBegin(s) PROVE LatestInv'
  <2>1. db' = db BY <1>3 DEF IngestBegin
  <2> QED BY <1>1, <1>3, <2>1, BeginKeepsLatest DEF LatestInv
<1>4. ASSUME NEW m \in Machines, IngestMachine(m) PROVE LatestInv'
  <2>1. db' = db BY <1>4 DEF IngestMachine
  <2>2. TxInv /\ AllLatest(work, tx) BY DEF LatestInv
  <2>3. AllLatest(work', tx')
    BY <1>4, <2>2, MachineStepMachines, MachineStepInstances, MachineStepNodes,
       MachineStepSamples DEF AllLatest
  <2> QED BY <1>1, <2>1, <2>3 DEF LatestInv
<1>5. CASE Rollback
  <2>1. work' = db /\ db' = db /\ tx' = None BY <1>5 DEF Rollback
  <2> QED BY <1>1, <2>1 DEF LatestInv
<1>6. CASE IngestCommit
  <2>1. db' = work' /\ tx' = None BY <1>6 DEF IngestCommit
  <2> QED BY <1>1, <1>6, <2>1, CommitKeepsLatest DEF LatestInv
<1>7. ASSUME NEW s \in Snapshots, IngestInvalid(s) \/ IngestDuplicate(s) PROVE LatestInv'
  BY <1>2, <1>7 DEF IngestInvalid, IngestDuplicate
<1>8. CASE UNCHANGED vars BY <1>2, <1>8 DEF vars
<1> QED BY <1>3, <1>4, <1>5, <1>6, <1>7, <1>8 DEF Next

(* However late, repeated or interrupted its deliveries, no machine,       *)
(* instance or node row is older than a snapshot that was ingested, and    *)
(* each is the observation of one that was.                                *)
THEOREM Latest == Spec => []RowsAreLatest
<1>1. ASSUME LatestInv PROVE MachineRowsAreLatest
  <2>1. \A m \in Machines : MachineLatest(db, None, m) BY <1>1 DEF LatestInv, AllLatest
  <2>2. \A m \in Machines : db.machines[m] # None => db.machines[m].source \in Collections
    BY <1>1 DEF LatestInv, TxInv, TypeOK, Tables, MachineRow
  <2>3. \A m \in Machines, c \in Collections :
          Seen(db, None, c, m) <=> Ingested(c) /\ m \in Reported(db.runs[c])
    BY DEF Seen, Ingested
  <2> SUFFICES ASSUME NEW m \in Machines
               PROVE  /\ \A c \in Collections :
                           Ingested(c) /\ m \in Reported(db.runs[c]) =>
                             /\ db.machines[m] # None
                             /\ db.runs[c].machines[m].observed_at <= db.machines[m].observed_at
                      /\ db.machines[m] # None =>
                           LET c == db.machines[m].source IN
                             /\ Ingested(c)
                             /\ m \in Reported(db.runs[c])
                             /\ db.runs[c].machines[m].observed_at = db.machines[m].observed_at
    BY DEF MachineRowsAreLatest
  <2>4. MachineLatest(db, None, m) BY <2>1
  <2>5. \A c \in Collections : Seen(db, None, c, m) =>
          /\ db.machines[m] # None
          /\ db.runs[c].machines[m].observed_at <= db.machines[m].observed_at
    BY <2>4, Zenon DEF MachineLatest
  <2>6. db.machines[m] # None =>
          /\ Seen(db, None, db.machines[m].source, m)
          /\ db.runs[db.machines[m].source].machines[m].observed_at = db.machines[m].observed_at
    BY <2>4, Zenon DEF MachineLatest
  <2> QED BY <2>2, <2>3, <2>5, <2>6, Zenon
<1>2. ASSUME LatestInv, NEW i \in Instances, NEW c \in Collections, NEW m \in Machines
      PROVE  Sees(db, None, c, m, i) <=> Ingested(c) /\ m \in Hosts(db.runs[c], i)
  BY Zenon DEF Sees, Seen, View, Ingested, Hosts, Listed, Reported
<1>3. ASSUME LatestInv PROVE InstanceRowsAreLatest
  <2>1. \A i \in Instances : InstanceLatest(db, None, i) BY <1>3 DEF LatestInv, AllLatest
  <2>2. \A i \in Instances : db.instances[i] # None => db.instances[i].machine_id \in Machines
    BY <1>3 DEF LatestInv, TxInv, TypeOK, Tables, InstanceRow
  <2>3. \A i \in Instances, c \in Collections : Hosts(db.runs[c], i) \subseteq Machines
    BY DEF Hosts, Reported
  <2> QED BY <1>2, <1>3, <2>1, <2>2, <2>3, Zenon DEF InstanceRowsAreLatest, InstanceLatest, View
<1>4. ASSUME LatestInv PROVE NodeRowsAreLatest
  <2>1. \A i \in Instances : NodeLatest(db, None, i) BY <1>4 DEF LatestInv, AllLatest
  <2>2. \A i \in Instances : db.nodes[i] # None => db.nodes[i].source \in Collections
    BY <1>4 DEF LatestInv, TxInv, TypeOK, Tables, NodeRow
  <2>3. \A i \in Instances, c \in Collections : Hosts(db.runs[c], i) \subseteq Machines
    BY DEF Hosts, Reported
  <2> QED BY <1>2, <1>4, <2>1, <2>2, <2>3, Zenon DEF NodeRowsAreLatest, NodeLatest, View
<1>5. LatestInv => RowsAreLatest BY <1>1, <1>3, <1>4 DEF RowsAreLatest
<1> QED BY InitLatestInv, NextLatestInv, <1>5, PTL DEF Spec

(* The stored metric samples are those of the ingested runs, no more and   *)
(* no fewer, whichever statement of a transaction fails.                   *)
THEOREM SamplesMatch == Spec => []SamplesMatchRuns
<1>1. ASSUME LatestInv, NEW c \in Collections, NEW i \in Instances, NEW e \in Metrics
      PROVE  <<c, i, e>> \in db.samples <=>
               /\ Ingested(c)
               /\ \E m \in Hosts(db.runs[c], i) : e \in db.runs[c].machines[m].instances[i].metrics
  <2>1. SampleMatches(db, None, c, i, e) BY <1>1 DEF LatestInv, AllLatest
  <2>2. \A m \in Machines : Sees(db, None, c, m, i) <=> Ingested(c) /\ m \in Hosts(db.runs[c], i)
    BY DEF Sees, Seen, View, Ingested, Hosts, Listed, Reported
  <2>3. Hosts(db.runs[c], i) \subseteq Machines BY DEF Hosts, Reported
  <2> QED BY <2>1, <2>2, <2>3 DEF SampleMatches, View
<1>2. LatestInv => SamplesMatchRuns
  <2> SUFFICES ASSUME LatestInv, NEW k \in Collections \X Instances \X Metrics
               PROVE  k \in db.samples <=>
                        /\ Ingested(k[1])
                        /\ \E m \in Hosts(db.runs[k[1]], k[2]) :
                             k[3] \in db.runs[k[1]].machines[m].instances[k[2]].metrics
    BY DEF SamplesMatchRuns
  <2>1. /\ k = <<k[1], k[2], k[3]>>
        /\ k[1] \in Collections /\ k[2] \in Instances /\ k[3] \in Metrics
    OBVIOUS
  <2> QED BY <1>1, <2>1
<1> QED BY InitLatestInv, NextLatestInv, <1>2, PTL DEF Spec

-----------------------------------------------------------------------------
(* Partial failure erases nothing. While a transaction runs, an active row *)
(* of before stays, unless a readable list says otherwise; a link is only  *)
(* gone if the instance's routes could be read.                            *)

Alive(row) == row # None /\ row.active

InstanceKept(i) ==
  LET s   == tx.snapshot
      row == work.instances[i]
      m   == db.instances[i].machine_id
  IN  /\ row # None
      /\ row.active => row.machine_id = m \/ row.machine_id \in Hosts(s, i)
      /\ ~row.active => m \in Reported(s) /\ s.machines[m].errors = {}

RoutesRead(s, i) ==
  \E m \in Hosts(s, i) : "list_routes" \notin s.machines[m].instances[i].errors

KeptSoFar ==
  tx # None =>
    /\ \A m \in Machines : Alive(db.machines[m]) => Alive(work.machines[m])
    /\ \A i \in Instances : Alive(db.instances[i]) => InstanceKept(i)
    /\ \A i \in Instances, p \in Peers :
         db.links[i][p] # None /\ work.links[i][p] = None => RoutesRead(tx.snapshot, i)

KeepInv == TxInv /\ KeptSoFar

(* What ingestion of one peer leaves.                                      *)
LEMMA UpsertPeerMeans ==
  ASSUME NEW row \in LinkRow \cup {None}, NEW s \in Snapshots, NEW v \in InstanceView,
         NEW peer \in PeerView
  PROVE  LET q == upsertPeer(row, s, v, peer) IN
         /\ q \in LinkRow /\ q # None
         /\ \/ row # None /\ q.details = row.details
            \/ q.details = s.collection_id /\ (row = None \/ "list_peers" \notin v.errors)
         /\ \/ q = row
            \/ q.observed_at = v.observed_at /\ q.completed_at = s.completed_at
<1> DEFINE q == upsertPeer(row, s, v, peer)
<1>1. q \in LinkRow \cup {None} BY LinkRowType
<1>2. CASE ~Supersedes(v.observed_at, s.completed_at, row)
  <2>1. q = row /\ row # None BY <1>2 DEF upsertPeer, Supersedes
  <2> HIDE DEF q
  <2>2. q \in LinkRow /\ q # None BY <1>1, <2>1
  <2>3. /\ row # None /\ q.details = row.details
        /\ q = row
    BY <2>1
  <2> QED BY <2>2, <2>3, Zenon DEF q
<1>3. CASE Supersedes(v.observed_at, s.completed_at, row)
  <2> DEFINE latency == IF row = None \/ "list_peers" \notin v.errors \/ ~peer.direct
                        THEN peer.latency ELSE row.latency
             details == IF row = None \/ "list_peers" \notin v.errors
                        THEN s.collection_id ELSE row.details
  <2>1. q = [observed_at |-> v.observed_at, completed_at |-> s.completed_at,
             direct |-> peer.direct, latency |-> latency, details |-> details]
    BY <1>3 DEF upsertPeer, hasOperationError
  <2> HIDE DEF q
  <2>2. latency \in Latency BY DEF LinkRow, PeerView
  <2>3. details \in Collections BY SnapshotTypes DEF LinkRow
  <2>4. \/ row # None /\ details = row.details
        \/ details = s.collection_id /\ (row = None \/ "list_peers" \notin v.errors)
    OBVIOUS
  <2> HIDE DEF latency, details
  <2>5. q \in LinkRow
    BY <2>1, <2>2, <2>3, SnapshotTypes DEF LinkRow, InstanceView, PeerView
  <2>6. q # None BY <2>5, NoRowAssumption
  <2>7. q.details = details /\ q.observed_at = v.observed_at /\ q.completed_at = s.completed_at
    BY <2>1
  <2>8. \/ row # None /\ q.details = row.details
        \/ q.details = s.collection_id /\ (row = None \/ "list_peers" \notin v.errors)
    BY <2>4, <2>7, Zenon
  <2> QED BY <2>5, <2>6, <2>7, <2>8, Zenon DEF q
<1> QED BY <1>2, <1>3

LEMMA LinkStep ==
  ASSUME TxInv, NEW m \in Machines, IngestMachine(m), NEW i \in Instances, NEW p \in Peers
  PROVE  LET s   == tx.snapshot
             v   == s.machines[m].instances[i]
             row == work.links[i][p]
             new == work'.links[i][p]
         IN  /\ s \in Snapshots /\ m \in Reported(s) /\ row \in LinkRow \cup {None}
             /\ m \in Hosts(s, i) <=> v # None
             /\ v # None => /\ v \in InstanceView /\ v.observed_at \in Nat
                            /\ v.peers[p] \in PeerView \cup {None}
             /\ v = None => new = row
             /\ v # None /\ v.peers[p] # None => new = upsertPeer(row, s, v, v.peers[p])
             /\ v # None /\ v.peers[p] = None =>
                  new = IF IsStalePeer(row, s, v) THEN None ELSE row
<1> DEFINE s == tx.snapshot
           v == s.machines[m].instances[i]
<1>1. /\ s \in Snapshots /\ m \in Reported(s) /\ work \in Tables
      /\ work'.links = ingestPeers(work.links, s, m)
  BY MachineSees, AfterMachineFields
<1>2. work.links[i][p] \in LinkRow \cup {None} BY <1>1 DEF Tables
<1>3. m \in Hosts(s, i) <=> v # None BY <1>1 DEF Hosts, Listed
<1>4. v # None => /\ v \in InstanceView /\ v.observed_at \in Nat
                  /\ v.peers \in [Peers -> PeerView \cup {None}]
  BY <1>1, ViewTypes, Zenon
<1>5. work'.links[i] =
        IF v = None THEN work.links[i]
        ELSE [q \in Peers |->
                IF v.peers[q] # None THEN upsertPeer(work.links[i][q], s, v, v.peers[q])
                ELSE IF IsStalePeer(work.links[i][q], s, v) THEN None
                ELSE work.links[i][q]]
  BY <1>1, Zenon DEF ingestPeers
<1> HIDE DEF v, s
<1>6. /\ v = None => work'.links[i][p] = work.links[i][p]
      /\ v # None /\ v.peers[p] # None =>
           work'.links[i][p] = upsertPeer(work.links[i][p], s, v, v.peers[p])
      /\ v # None /\ v.peers[p] = None =>
           work'.links[i][p] = IF IsStalePeer(work.links[i][p], s, v) THEN None
                               ELSE work.links[i][p]
  BY <1>5
<1>7. v # None => v.peers[p] \in PeerView \cup {None} BY <1>4
<1> QED BY <1>1, <1>2, <1>3, <1>4, <1>6, <1>7 DEF v, s

LEMMA MachineKeepsKept ==
  ASSUME KeepInv, NEW m \in Machines, IngestMachine(m)
  PROVE  KeptSoFar'
<1> DEFINE s == tx.snapshot
<1>1. /\ s \in Snapshots /\ m \in Reported(s) /\ work \in Tables
      /\ work'.machines = upsertMachine(work.machines, s, m)
      /\ work'.instances =
           markMissingInstancesInactive(upsertInstances(work.instances, s, m), s, m)
  BY MachineSees, AfterMachineFields DEF KeepInv
<1>2. tx \in Transaction /\ tx'.snapshot = s /\ tx # None /\ db' = db /\ TxInv
  BY TransactionTypes DEF IngestMachine, Transaction, KeepInv, TxInv, Idle
<1>3. work.machines \in MachineTable /\ work.instances \in InstanceTable
      /\ db.instances \in InstanceTable
  BY <1>1 DEF Tables, MachineTable, InstanceTable, KeepInv, TxInv, TypeOK
<1>4. ASSUME NEW n \in Machines, Alive(db.machines[n]) PROVE Alive(work'.machines[n])
  <2>1. Alive(work.machines[n]) BY <1>2, <1>4 DEF KeepInv, KeptSoFar
  <2>2. CASE work'.machines[n] = work.machines[n] BY <2>1, <2>2
  <2>3. CASE work'.machines[n] # work.machines[n]
    <3>1. work'.machines[n] = [observed_at  |-> s.machines[m].observed_at,
                               completed_at |-> s.completed_at,
                               active       |-> TRUE,
                               source       |-> s.collection_id]
      <4>1. /\ upsertMachine(work.machines, s, m)[n] # work.machines[n]
            /\ work.machines \in MachineTable
        BY <1>1, <1>3, <2>3
      <4>2. upsertMachine(work.machines, s, m)[n] =
              [observed_at  |-> s.machines[m].observed_at,
               completed_at |-> s.completed_at,
               active       |-> TRUE,
               source       |-> s.collection_id]
        <5> HIDE DEF s
        <5> QED BY <4>1 DEF upsertMachine, MachineTable
      <4> QED BY <1>1, <4>2
    <3>2. work'.machines[n] \in MachineRow
      BY <1>1, <3>1, SnapshotTypes, ViewTypes DEF MachineRow
    <3>3. work'.machines[n] # None BY <3>2, NoRowAssumption
    <3> QED BY <3>1, <3>3 DEF Alive
  <2> QED BY <2>2, <2>3
<1>5. ASSUME NEW i \in Instances, Alive(db.instances[i]) PROVE InstanceKept(i)'
  <2> DEFINE v   == s.machines[m].instances[i]
             row == work.instances[i]
             mid == upsertInstances(work.instances, s, m)[i]
             new == work'.instances[i]
             old == db.instances[i].machine_id
  <2>1. /\ row # None
        /\ row.active => row.machine_id = old \/ row.machine_id \in Hosts(s, i)
        /\ ~row.active => old \in Reported(s) /\ s.machines[old].errors = {}
    BY <1>2, <1>5 DEF KeepInv, KeptSoFar, InstanceKept
  <2>2. mid = IF v # None /\ Supersedes(v.observed_at, s.completed_at, row)
              THEN [observed_at |-> v.observed_at, completed_at |-> s.completed_at,
                    active |-> TRUE, machine_id |-> m]
              ELSE row
    BY DEF upsertInstances
  <2>3. mid = None \/ mid \in InstanceRow
    BY <1>1, <1>3, InstanceTableType DEF InstanceTable
  <2>4. new = IF /\ ~hasOperationError(s.machines[m].errors, "list_network_instances")
                 /\ mid # None /\ mid.machine_id = m /\ mid.active
                 /\ i \notin Listed(s.machines[m]) /\ mid.completed_at < s.completed_at
              THEN Deactivated(mid, s) ELSE mid
    BY <1>1 DEF markMissingInstancesInactive
  <2>5. v # None <=> i \in Listed(s.machines[m]) BY DEF Listed
  <2>6. m \in Hosts(s, i) <=> v # None BY <1>1, <2>5 DEF Hosts
  <2>7. v # None => v.observed_at \in Nat BY <1>1, ViewTypes
  <2>8. s.machines[m].errors \subseteq {"list_network_instances"}
    BY <1>1, ViewTypes DEF MachineView, MachineErrors
  <2> HIDE DEF v, row, mid, s, old
  <2>9. /\ mid # None
        /\ mid.active => mid.machine_id = old \/ mid.machine_id \in Hosts(s, i)
        /\ ~mid.active => old \in Reported(s) /\ s.machines[old].errors = {}
    <3>1. CASE mid = row BY <2>1, <3>1
    <3>2. CASE mid # row
      <4>1. v # None /\ mid = [observed_at |-> v.observed_at, completed_at |-> s.completed_at,
                               active |-> TRUE, machine_id |-> m]
        BY <2>2, <3>2
      <4>2. mid \in InstanceRow BY <1>1, <2>7, <4>1, SnapshotTypes DEF InstanceRow
      <4>3. mid # None BY <4>2, NoRowAssumption
      <4> QED BY <2>6, <4>1, <4>3
    <3> QED BY <3>1, <3>2
  <2> HIDE DEF new
  <2>10. CASE new = mid
    BY <1>2, <2>9, <2>10 DEF InstanceKept, new, old
  <2>11. CASE new # mid
    <3>1. /\ "list_network_instances" \notin s.machines[m].errors
          /\ mid.machine_id = m /\ mid.active /\ v = None /\ new = Deactivated(mid, s)
      BY <2>4, <2>5, <2>11 DEF hasOperationError
    <3>2. mid \in InstanceRow BY <2>3, <2>9
    <3>3. new # None /\ ~new.active BY <1>1, <3>1, <3>2, DeactivatedInstance
    <3>4. old = m BY <2>6, <2>9, <3>1
    <3>5. old \in Reported(s) /\ s.machines[old].errors = {}
      BY <1>1, <2>8, <3>1, <3>4
    <3> QED BY <1>2, <3>3, <3>5 DEF InstanceKept, new, old
  <2> QED BY <2>10, <2>11
<1>6. ASSUME NEW i \in Instances, NEW p \in Peers, db.links[i][p] # None, work'.links[i][p] = None
      PROVE  RoutesRead(s, i)
  <2> DEFINE v   == s.machines[m].instances[i]
             row == work.links[i][p]
             new == work'.links[i][p]
  <2>1. /\ row \in LinkRow \cup {None}
        /\ m \in Hosts(s, i) <=> v # None
        /\ v # None => v \in InstanceView /\ v.peers[p] \in PeerView \cup {None}
        /\ v = None => new = row
        /\ v # None /\ v.peers[p] # None => new = upsertPeer(row, s, v, v.peers[p])
        /\ v # None /\ v.peers[p] = None => new = IF IsStalePeer(row, s, v) THEN None ELSE row
    <3>1. TxInv BY <1>2
    <3> QED BY <3>1, LinkStep, Zenon
  <2>2. CASE row = None
    BY <1>2, <1>6, <2>2 DEF KeepInv, KeptSoFar
  <2>3. CASE row # None
    <3>1. v # None /\ v.peers[p] = None /\ IsStalePeer(row, s, v)
      <4>1. new = None /\ s \in Snapshots BY <1>1, <1>6
      <4> HIDE DEF s, v, row, new
      <4>2. v # None BY <2>1, <2>3, <4>1
      <4>3. ASSUME v.peers[p] # None PROVE FALSE
        <5>1. /\ row \in LinkRow \cup {None} /\ v \in InstanceView /\ v.peers[p] \in PeerView
              /\ new = upsertPeer(row, s, v, v.peers[p])
          BY <2>1, <4>2, <4>3
        <5> QED BY <4>1, <5>1, UpsertPeerMeans
      <4>4. new = IF IsStalePeer(row, s, v) THEN None ELSE row BY <2>1, <4>2, <4>3, Zenon
      <4> QED BY <2>3, <4>1, <4>2, <4>3, <4>4, Zenon
    <3> QED BY <2>1, <3>1 DEF IsStalePeer, hasOperationError, RoutesRead
  <2> QED BY <2>2, <2>3
<1> QED BY <1>2, <1>4, <1>5, <1>6 DEF KeptSoFar

LEMMA BeginKeepsKept ==
  ASSUME KeepInv, NEW s \in Snapshots, IngestBegin(s)
  PROVE  KeptSoFar'
<1>1. work = db /\ db' = db /\ work \in Tables
  BY DEF IngestBegin, KeepInv, TxInv, TypeOK, WorkIsCommitted
<1>2. /\ work'.machines = db.machines /\ work'.instances = db.instances
      /\ work'.links = db.links
  BY <1>1 DEF IngestBegin, Tables
<1>3. \A i \in Instances : Alive(db.instances[i]) => InstanceKept(i)'
  BY <1>1, <1>2 DEF Alive, InstanceKept
<1> QED BY <1>1, <1>2, <1>3 DEF KeptSoFar

LEMMA InitKeepInv == Init => KeepInv
BY InitTxInv DEF Init, KeepInv, KeptSoFar

LEMMA NextKeepInv == KeepInv /\ [Next]_vars => KeepInv'
<1> SUFFICES ASSUME KeepInv, [Next]_vars PROVE KeepInv' OBVIOUS
<1>1. TxInv' BY NextTxInv DEF KeepInv
<1>2. ASSUME db' = db, work' = work, tx' = tx PROVE KeepInv'
  BY <1>1, <1>2 DEF KeepInv, KeptSoFar, InstanceKept
<1>3. ASSUME NEW s \in Snapshots, IngestBegin(s) PROVE KeepInv'
  BY <1>1, <1>3, BeginKeepsKept DEF KeepInv
<1>4. ASSUME NEW m \in Machines, IngestMachine(m) PROVE KeepInv'
  BY <1>1, <1>4, MachineKeepsKept DEF KeepInv
<1>5. CASE Rollback \/ IngestCommit
  <2>1. tx' = None BY <1>5 DEF Rollback, IngestCommit
  <2> QED BY <1>1, <2>1 DEF KeepInv, KeptSoFar
<1>6. ASSUME NEW s \in Snapshots, IngestInvalid(s) \/ IngestDuplicate(s) PROVE KeepInv'
  BY <1>2, <1>6 DEF IngestInvalid, IngestDuplicate
<1>7. CASE UNCHANGED vars BY <1>2, <1>7 DEF vars
<1> QED BY <1>3, <1>4, <1>5, <1>6, <1>7 DEF Next

(* Only a commit changes the committed tables.                             *)
LEMMA CommittingMeans ==
  ASSUME [Next]_vars, db' # db
  PROVE  IngestCommit
BY DEF Next, vars, IngestInvalid, IngestBegin, IngestDuplicate, IngestMachine, Rollback

(* What a commit may take away.                                            *)
LEMMA CommitKeeps ==
  ASSUME KeepInv, IngestCommit
  PROVE  LET s == tx.snapshot IN
         /\ \A m \in Machines :
              Alive(db.machines[m]) =>
                Alive(db'.machines[m]) \/ (s.errors = {} /\ m \notin Reported(s))
         /\ \A i \in Instances : Alive(db.instances[i]) =>
              LET m == db.instances[i].machine_id IN
              \/ /\ Alive(db'.instances[i])
                 /\ db'.instances[i].machine_id \in {m} \cup Hosts(s, i)
              \/ m \in Reported(s) /\ s.machines[m].errors = {}
              \/ m \notin Reported(s) /\ s.errors = {}
         /\ \A i \in Instances, p \in Peers :
              db.links[i][p] # None /\ db'.links[i][p] = None => RoutesRead(s, i)
<1> DEFINE s == tx.snapshot
<1>1. s \in Snapshots /\ tx # None
  BY TransactionTypes DEF IngestCommit, KeepInv, TxInv, Idle
<1>2. /\ work \in Tables /\ db'.links = work.links
      /\ db'.machines = MissingMachines(work.machines, s)
      /\ db'.instances = InstancesOfMissingMachines(work.instances, s)
  BY <1>1, AfterMarkingFields DEF IngestCommit, KeepInv, TxInv, TypeOK
<1>3. ASSUME NEW m \in Machines, Alive(db.machines[m])
      PROVE  Alive(db'.machines[m]) \/ (s.errors = {} /\ m \notin Reported(s))
  <2>1. Alive(work.machines[m]) BY <1>1, <1>3 DEF KeepInv, KeptSoFar
  <2>2. db'.machines[m] = work.machines[m] \/ (s.errors = {} /\ m \notin Reported(s))
    BY <1>2 DEF MissingMachines
  <2> QED BY <2>1, <2>2
<1>4. ASSUME NEW i \in Instances, Alive(db.instances[i])
      PROVE  LET m == db.instances[i].machine_id IN
              \/ /\ Alive(db'.instances[i])
                 /\ db'.instances[i].machine_id \in {m} \cup Hosts(s, i)
              \/ m \in Reported(s) /\ s.machines[m].errors = {}
              \/ m \notin Reported(s) /\ s.errors = {}
  <2> DEFINE m == db.instances[i].machine_id
             row == work.instances[i]
  <2>1. /\ row # None
        /\ row.active => row.machine_id = m \/ row.machine_id \in Hosts(s, i)
        /\ ~row.active => m \in Reported(s) /\ s.machines[m].errors = {}
    BY <1>1, <1>4 DEF KeepInv, KeptSoFar, InstanceKept
  <2>2. \/ db'.instances[i] = row
        \/ row.machine_id \notin Reported(s) /\ s.errors = {} /\ row.active
    BY <1>2 DEF InstancesOfMissingMachines
  <2>3. Hosts(s, i) \subseteq Reported(s) BY DEF Hosts
  <2> HIDE DEF row, s, m
  <2>4. CASE ~row.active BY <2>1, <2>4 DEF m
  <2>5. CASE row.active /\ db'.instances[i] = row
    BY <2>1, <2>5 DEF Alive, m
  <2>6. CASE row.active /\ row.machine_id \notin Reported(s) /\ s.errors = {}
    BY <2>1, <2>3, <2>6 DEF m
  <2> QED BY <2>2, <2>4, <2>5, <2>6
<1>5. ASSUME NEW i \in Instances, NEW p \in Peers, db.links[i][p] # None, db'.links[i][p] = None
      PROVE  RoutesRead(s, i)
  BY <1>1, <1>2, <1>5 DEF KeepInv, KeptSoFar
<1> QED BY <1>3, <1>4, <1>5

(* Whichever calls of a collection failed, its ingestion takes nothing     *)
(* offline and deletes no link that it could not read.                     *)
THEOREM NothingErased == Spec => ErrorsNeverErase
<1> DEFINE listFailed(s, m) == m \in Reported(s) /\ s.machines[m].errors # {}
           Erase ==
             LET s == tx.snapshot IN
             Committing =>
               /\ \A m \in Machines :
                    (db.machines[m] # None /\ db.machines[m].active /\ ~db'.machines[m].active)
                      => s.errors = {} /\ m \notin Reported(s)
               /\ \A i \in Instances :
                    (db.instances[i] # None /\ db.instances[i].active
                       /\ ~db'.instances[i].active)
                      => LET m == db.instances[i].machine_id IN
                           ~listFailed(s, m) /\ (m \in Reported(s) \/ s.errors = {})
               /\ \A i \in Instances, p \in Peers :
                    (db.links[i][p] # None /\ db'.links[i][p] = None)
                      => \E m \in Hosts(s, i) :
                           "list_routes" \notin s.machines[m].instances[i].errors
<1>1. ASSUME KeepInv, [Next]_vars PROVE Erase
  <2> SUFFICES ASSUME Committing PROVE Erase OBVIOUS
  <2> DEFINE s == tx.snapshot
  <2>1. IngestCommit BY <1>1, CommittingMeans DEF Committing
  <2>2. /\ \A m \in Machines :
              Alive(db.machines[m]) =>
                Alive(db'.machines[m]) \/ (s.errors = {} /\ m \notin Reported(s))
        /\ \A i \in Instances : Alive(db.instances[i]) =>
              LET m == db.instances[i].machine_id IN
              \/ Alive(db'.instances[i])
              \/ m \in Reported(s) /\ s.machines[m].errors = {}
              \/ m \notin Reported(s) /\ s.errors = {}
        /\ \A i \in Instances, p \in Peers :
              db.links[i][p] # None /\ db'.links[i][p] = None => RoutesRead(s, i)
    BY <1>1, <2>1, CommitKeeps
  <2> QED BY <2>2 DEF Alive, RoutesRead
<1>2. KeepInv /\ [Next]_vars => [Erase]_vars BY <1>1
<1> QED BY InitKeepInv, NextKeepInv, <1>2, PTL DEF Spec, ErrorsNeverErase

-----------------------------------------------------------------------------
(* Link rows are the latest too. The argument is that of the other tables, *)
(* except that a link may be gone: then the routes of a later observation  *)
(* lack it, and that observation stays on record when an older snapshot    *)
(* enters the link anew.                                                   *)

LinkSeen(t, x, c, m, i, p) == Sees(t, x, c, m, i) /\ View(t, c, m, i).peers[p] # None

NoLinkSeen(t, x, c, m, i, p) ==
  /\ Sees(t, x, c, m, i)
  /\ View(t, c, m, i).peers[p] = None
  /\ "list_routes" \notin View(t, c, m, i).errors

LinkObserved(t, x, i, p) ==
  LET row == t.links[i][p] IN
  row # None => \E c \in Collections, m \in Machines :
    /\ LinkSeen(t, x, c, m, i, p)
    /\ t.runs[c].completed_at = row.completed_at
    /\ View(t, c, m, i).observed_at = row.observed_at
    /\ View(t, c, m, i).peers[p].direct = row.direct

(* An observation is not later than the stored row, or was superseded.     *)
LinkRecorded(t, x, i, p, observed, completed) ==
  \/ /\ t.links[i][p] # None
     /\ ~IsLater(observed, completed, t.links[i][p].observed_at, t.links[i][p].completed_at)
  \/ \E d \in Collections, n \in Machines :
       /\ NoLinkSeen(t, x, d, n, i, p)
       /\ IsLater(View(t, d, n, i).observed_at, t.runs[d].completed_at, observed, completed)

LinkLatest(t, x, i, p) ==
  /\ LinkObserved(t, x, i, p)
  /\ \A c \in Collections, m \in Machines : LinkSeen(t, x, c, m, i, p) =>
       LinkRecorded(t, x, i, p, View(t, c, m, i).observed_at, t.runs[c].completed_at)

AllLinksLatest(t, x) == \A i \in Instances, p \in Peers : LinkLatest(t, x, i, p)

LinksInv == TxInv /\ AllLinksLatest(db, None) /\ AllLinksLatest(work, tx)

(* The times of what tables t hold a view of.                              *)
LEMMA SeenTimes ==
  ASSUME NEW t \in Tables, NEW x, NEW c \in Collections, NEW m \in Machines,
         NEW i \in Instances, Sees(t, x, c, m, i)
  PROVE  View(t, c, m, i).observed_at \in Nat /\ t.runs[c].completed_at \in Nat
<1>1. t.runs[c] \in Snapshots /\ m \in Reported(t.runs[c]) /\ View(t, c, m, i) # None
  BY DEF Sees, Seen, Tables
<1> QED BY <1>1, SnapshotTypes, ViewTypes, Zenon DEF View

(* What one machine adds to the sightings of a link.                       *)
LEMMA MachineSightings ==
  ASSUME TxInv, NEW m \in Machines, IngestMachine(m), NEW i \in Instances, NEW p \in Peers
  PROVE  LET id == tx.snapshot.collection_id
             v  == tx.snapshot.machines[m].instances[i]
         IN  /\ id \in Collections
             /\ View(work', id, m, i) = v /\ work'.runs[id] = tx.snapshot
             /\ \A c \in Collections, k \in Machines :
                  /\ View(work', c, k, i) = View(work, c, k, i)
                  /\ work'.runs[c] = work.runs[c]
                  /\ LinkSeen(work', tx', c, k, i, p) <=>
                       \/ LinkSeen(work, tx, c, k, i, p)
                       \/ c = id /\ k = m /\ v # None /\ v.peers[p] # None
                  /\ NoLinkSeen(work', tx', c, k, i, p) <=>
                       \/ NoLinkSeen(work, tx, c, k, i, p)
                       \/ /\ c = id /\ k = m /\ v # None /\ v.peers[p] = None
                          /\ "list_routes" \notin v.errors
<1> DEFINE s == tx.snapshot
           v == s.machines[m].instances[i]
<1>1. /\ s.collection_id \in Collections
      /\ work.runs[s.collection_id] = s /\ work'.runs = work.runs
      /\ \A c \in Collections, k \in Machines :
           Seen(work', tx', c, k) <=>
             Seen(work, tx, c, k) \/ (c = s.collection_id /\ k = m)
  BY MachineSees
<1>2. View(work, s.collection_id, m, i) = v BY <1>1 DEF View
<1>3. \A c \in Collections, k \in Machines : View(work', c, k, i) = View(work, c, k, i)
  BY <1>1 DEF View
<1> HIDE DEF s, v
<1>4. \A c \in Collections, k \in Machines :
        Sees(work', tx', c, k, i) <=>
          Sees(work, tx, c, k, i) \/ (c = s.collection_id /\ k = m /\ v # None)
  BY <1>1, <1>2, <1>3 DEF Sees
<1>5. ASSUME NEW c \in Collections, NEW k \in Machines
      PROVE  /\ LinkSeen(work', tx', c, k, i, p) <=>
                  \/ LinkSeen(work, tx, c, k, i, p)
                  \/ c = s.collection_id /\ k = m /\ v # None /\ v.peers[p] # None
             /\ NoLinkSeen(work', tx', c, k, i, p) <=>
                  \/ NoLinkSeen(work, tx, c, k, i, p)
                  \/ /\ c = s.collection_id /\ k = m /\ v # None /\ v.peers[p] = None
                     /\ "list_routes" \notin v.errors
  BY <1>2, <1>3, <1>4 DEF LinkSeen, NoLinkSeen
<1> QED BY <1>1, <1>2, <1>3, <1>5 DEF s, v

LEMMA MachineStepLinks ==
  ASSUME TxInv, NEW m \in Machines, IngestMachine(m), NEW i \in Instances, NEW p \in Peers,
         LinkLatest(work, tx, i, p)
  PROVE  LinkLatest(work', tx', i, p)
<1> DEFINE s   == tx.snapshot
           id  == s.collection_id
           v   == s.machines[m].instances[i]
           row == work.links[i][p]
           new == work'.links[i][p]
           At(c, k) == View(work, c, k, i).observed_at
           By(c)    == work.runs[c].completed_at
           old(c, k)  == LinkSeen(work, tx, c, k, i, p)
           gone(c, k) == NoLinkSeen(work, tx, c, k, i, p)
<1>1. /\ s \in Snapshots /\ row \in LinkRow \cup {None}
      /\ v # None => /\ v \in InstanceView /\ v.observed_at \in Nat
                     /\ v.peers[p] \in PeerView \cup {None}
      /\ v = None => new = row
      /\ v # None /\ v.peers[p] # None => new = upsertPeer(row, s, v, v.peers[p])
      /\ v # None /\ v.peers[p] = None =>
           new = IF IsStalePeer(row, s, v) THEN None ELSE row
  BY LinkStep
<1>2. /\ id \in Collections /\ View(work', id, m, i) = v /\ work'.runs[id] = s
      /\ \A c \in Collections, k \in Machines :
           /\ View(work', c, k, i) = View(work, c, k, i)
           /\ work'.runs[c] = work.runs[c]
           /\ LinkSeen(work', tx', c, k, i, p) <=>
                \/ old(c, k)
                \/ c = id /\ k = m /\ v # None /\ v.peers[p] # None
           /\ NoLinkSeen(work', tx', c, k, i, p) <=>
                \/ gone(c, k)
                \/ /\ c = id /\ k = m /\ v # None /\ v.peers[p] = None
                   /\ "list_routes" \notin v.errors
  BY MachineSightings
<1>3. s.completed_at \in Nat BY <1>1, SnapshotTypes
<1>4. row # None => row.observed_at \in Nat /\ row.completed_at \in Nat
  BY <1>1 DEF LinkRow
<1>5. \A c \in Collections, k \in Machines : old(c, k) => At(c, k) \in Nat /\ By(c) \in Nat
  <2>1. work \in Tables BY DEF TxInv, TypeOK
  <2> QED BY <2>1, SeenTimes DEF LinkSeen
<1>6. row # None => \E c \in Collections, k \in Machines :
        /\ old(c, k) /\ By(c) = row.completed_at /\ At(c, k) = row.observed_at
        /\ View(work, c, k, i).peers[p].direct = row.direct
  BY Zenon DEF LinkLatest, LinkObserved
<1>7. \A c \in Collections, k \in Machines : old(c, k) =>
        \/ row # None /\ ~IsLater(At(c, k), By(c), row.observed_at, row.completed_at)
        \/ \E d \in Collections, n \in Machines :
             gone(d, n) /\ IsLater(At(d, n), By(d), At(c, k), By(c))
  BY Zenon DEF LinkLatest, LinkRecorded
<1>8. \A c \in Collections, k \in Machines : At(c, k) = View(work', c, k, i).observed_at
                                             /\ By(c) = work'.runs[c].completed_at
  BY <1>2
<1>9. At(id, m) = v.observed_at /\ By(id) = s.completed_at BY <1>2
<1>10. SUFFICES
         /\ new # None => \E c \in Collections, k \in Machines :
              /\ LinkSeen(work', tx', c, k, i, p)
              /\ By(c) = new.completed_at /\ At(c, k) = new.observed_at
              /\ View(work, c, k, i).peers[p].direct = new.direct
         /\ \A c \in Collections, k \in Machines : LinkSeen(work', tx', c, k, i, p) =>
              \/ new # None /\ ~IsLater(At(c, k), By(c), new.observed_at, new.completed_at)
              \/ \E d \in Collections, n \in Machines :
                   /\ NoLinkSeen(work', tx', d, n, i, p)
                   /\ IsLater(At(d, n), By(d), At(c, k), By(c))
  <2> HIDE DEF new, At, By
  <2>1. LinkObserved(work', tx', i, p)
    <3>1. ASSUME new # None PROVE \E c \in Collections, k \in Machines :
            /\ LinkSeen(work', tx', c, k, i, p)
            /\ work'.runs[c].completed_at = new.completed_at
            /\ View(work', c, k, i).observed_at = new.observed_at
            /\ View(work', c, k, i).peers[p].direct = new.direct
      BY <1>2, <1>8, <1>10, <3>1
    <3> QED BY <3>1, Zenon DEF LinkObserved, new
  <2>2. ASSUME NEW c \in Collections, NEW k \in Machines, LinkSeen(work', tx', c, k, i, p)
        PROVE  LinkRecorded(work', tx', i, p, View(work', c, k, i).observed_at,
                            work'.runs[c].completed_at)
    <3>1. \/ new # None /\ ~IsLater(At(c, k), By(c), new.observed_at, new.completed_at)
          \/ \E d \in Collections, n \in Machines :
               /\ NoLinkSeen(work', tx', d, n, i, p)
               /\ IsLater(View(work', d, n, i).observed_at, work'.runs[d].completed_at,
                          At(c, k), By(c))
      BY <1>8, <1>10, <2>2
    <3>2. At(c, k) = View(work', c, k, i).observed_at /\ By(c) = work'.runs[c].completed_at
      BY <1>8
    <3> QED BY <3>1, <3>2, Zenon DEF LinkRecorded, new
  <2> QED BY <2>1, <2>2, Zenon DEF LinkLatest
<1> HIDE DEF s, id, v, row, new, At, By, old, gone
<1>11. CASE new = row /\ (v = None \/ v.peers[p] = None)
  <2>1. \A c \in Collections, k \in Machines :
          /\ LinkSeen(work', tx', c, k, i, p) <=> old(c, k)
          /\ gone(c, k) => NoLinkSeen(work', tx', c, k, i, p)
    BY <1>2, <1>11, Zenon
  <2> QED BY <1>6, <1>7, <1>11, <2>1, Zenon
<1>12. CASE v # None /\ v.peers[p] = None /\ new # row
  <2>1. new = None /\ IsStalePeer(row, s, v) BY <1>1, <1>12
  <2>2. /\ row # None /\ "list_routes" \notin v.errors
        /\ IsLater(v.observed_at, s.completed_at, row.observed_at, row.completed_at)
    BY <2>1 DEF IsStalePeer, hasOperationError, Supersedes, IsLater
  <2>3. NoLinkSeen(work', tx', id, m, i, p) BY <1>2, <1>12, <2>2
  <2>4. ASSUME NEW c \in Collections, NEW k \in Machines, LinkSeen(work', tx', c, k, i, p)
        PROVE  \E d \in Collections, n \in Machines :
                 /\ NoLinkSeen(work', tx', d, n, i, p)
                 /\ IsLater(At(d, n), By(d), At(c, k), By(c))
    <3>1. old(c, k) BY <1>2, <1>12, <2>4
    <3>2. CASE ~IsLater(At(c, k), By(c), row.observed_at, row.completed_at)
      <4>1. IsLater(v.observed_at, s.completed_at, At(c, k), By(c))
        <5>1. v.observed_at \in Nat /\ s.completed_at \in Nat BY <1>1, <1>3, <1>12
        <5>2. row.observed_at \in Nat /\ row.completed_at \in Nat BY <1>4, <2>2
        <5>3. At(c, k) \in Nat /\ By(c) \in Nat BY <1>5, <3>1
        <5> QED BY <2>2, <3>2, <5>1, <5>2, <5>3 DEF IsLater
      <4> QED BY <1>2, <1>9, <2>3, <4>1, Zenon
    <3>3. CASE \E d \in Collections, n \in Machines :
                 gone(d, n) /\ IsLater(At(d, n), By(d), At(c, k), By(c))
      BY <1>2, <3>3, Zenon
    <3> QED BY <1>7, <3>1, <3>2, <3>3, Zenon
  <2> QED BY <2>1, <2>4, Zenon
<1>13. CASE v # None /\ v.peers[p] # None
  <2>1. new = upsertPeer(row, s, v, v.peers[p]) BY <1>1, <1>13
  <2>2. LinkSeen(work', tx', id, m, i, p) BY <1>2, <1>13
  <2>3. \A c \in Collections, k \in Machines :
          /\ LinkSeen(work', tx', c, k, i, p) <=> old(c, k) \/ (c = id /\ k = m)
          /\ gone(c, k) => NoLinkSeen(work', tx', c, k, i, p)
    BY <1>2, <1>13, Zenon
  <2>4. CASE ~Supersedes(v.observed_at, s.completed_at, row)
    <3>1. new = row /\ row # None BY <2>1, <2>4 DEF upsertPeer, Supersedes
    <3>2. ~IsLater(v.observed_at, s.completed_at, row.observed_at, row.completed_at)
      BY <2>4 DEF Supersedes, IsLater
    <3> QED BY <1>6, <1>7, <1>9, <2>3, <3>1, <3>2, Zenon
  <2>5. CASE Supersedes(v.observed_at, s.completed_at, row)
    <3>1. /\ new.observed_at = v.observed_at /\ new.completed_at = s.completed_at
          /\ new.direct = v.peers[p].direct
      BY <2>1, <2>5 DEF upsertPeer
    <3>2. new # None
      <4>1. v \in InstanceView /\ v.peers[p] \in PeerView BY <1>1, <1>13
      <4> QED BY <1>1, <2>1, <4>1, UpsertPeerMeans
    <3>3. row # None =>
            IsLater(v.observed_at, s.completed_at, row.observed_at, row.completed_at)
      BY <2>5 DEF Supersedes, IsLater
    <3>4. View(work, id, m, i) = v BY <1>2
    <3>5. ASSUME NEW c \in Collections, NEW k \in Machines, LinkSeen(work', tx', c, k, i, p)
          PROVE  \/ ~IsLater(At(c, k), By(c), new.observed_at, new.completed_at)
                 \/ \E d \in Collections, n \in Machines :
                      /\ NoLinkSeen(work', tx', d, n, i, p)
                      /\ IsLater(At(d, n), By(d), At(c, k), By(c))
      <4>1. CASE c = id /\ k = m
        BY <1>1, <1>3, <1>9, <1>13, <3>1, <4>1 DEF IsLater
      <4>2. CASE row # None /\ old(c, k)
                 /\ ~IsLater(At(c, k), By(c), row.observed_at, row.completed_at)
        <5>1. v.observed_at \in Nat /\ s.completed_at \in Nat BY <1>1, <1>3, <1>13
        <5>2. row.observed_at \in Nat /\ row.completed_at \in Nat BY <1>4, <4>2
        <5>3. At(c, k) \in Nat /\ By(c) \in Nat BY <1>5, <4>2
        <5>4. ~IsLater(At(c, k), By(c), v.observed_at, s.completed_at)
          BY <3>3, <4>2, <5>1, <5>2, <5>3 DEF IsLater
        <5> QED BY <3>1, <5>4
      <4>3. CASE \E d \in Collections, n \in Machines :
                   gone(d, n) /\ IsLater(At(d, n), By(d), At(c, k), By(c))
        BY <2>3, <4>3, Zenon
      <4> QED BY <1>7, <2>3, <3>5, <4>1, <4>2, <4>3, Zenon
    <3> QED BY <1>2, <1>9, <2>2, <3>1, <3>2, <3>4, <3>5, Zenon
  <2> QED BY <2>4, <2>5
<1> QED BY <1>1, <1>11, <1>12, <1>13

(* Tables with the same sightings and the same link rows.                  *)
LEMMA SameLinks ==
  ASSUME NEW t, NEW u, NEW x, NEW y, AllLinksLatest(t, x), u.links = t.links,
         \A c \in Collections, m \in Machines :
           /\ Seen(u, y, c, m) <=> Seen(t, x, c, m)
           /\ Seen(t, x, c, m) => u.runs[c] = t.runs[c]
  PROVE  AllLinksLatest(u, y)
<1> SUFFICES ASSUME NEW i \in Instances, NEW p \in Peers PROVE LinkLatest(u, y, i, p)
  BY DEF AllLinksLatest
<1>1. LinkLatest(t, x, i, p) BY DEF AllLinksLatest
<1>2. \A c \in Collections, m \in Machines :
        /\ Sees(u, y, c, m, i) <=> Sees(t, x, c, m, i)
        /\ Sees(t, x, c, m, i) => View(u, c, m, i) = View(t, c, m, i) /\ u.runs[c] = t.runs[c]
  BY DEF Sees, View
<1>3. \A c \in Collections, m \in Machines :
        /\ LinkSeen(u, y, c, m, i, p) <=> LinkSeen(t, x, c, m, i, p)
        /\ NoLinkSeen(u, y, c, m, i, p) <=> NoLinkSeen(t, x, c, m, i, p)
        /\ LinkSeen(t, x, c, m, i, p) \/ NoLinkSeen(t, x, c, m, i, p) =>
             View(u, c, m, i) = View(t, c, m, i) /\ u.runs[c] = t.runs[c]
  BY <1>2, Zenon DEF LinkSeen, NoLinkSeen
<1>4. LinkObserved(u, y, i, p) BY <1>1, <1>3 DEF LinkLatest, LinkObserved
<1>5. ASSUME NEW c \in Collections, NEW m \in Machines, LinkSeen(u, y, c, m, i, p)
      PROVE  LinkRecorded(u, y, i, p, View(u, c, m, i).observed_at, u.runs[c].completed_at)
  <2>1. LinkSeen(t, x, c, m, i, p) /\ View(u, c, m, i) = View(t, c, m, i) /\ u.runs[c] = t.runs[c]
    BY <1>3, <1>5
  <2>2. LinkRecorded(t, x, i, p, View(t, c, m, i).observed_at, t.runs[c].completed_at)
    BY <1>1, <2>1 DEF LinkLatest
  <2> QED BY <1>3, <2>1, <2>2 DEF LinkRecorded
<1> QED BY <1>4, <1>5 DEF LinkLatest

LEMMA BeginKeepsLinks ==
  ASSUME LinksInv, NEW s \in Snapshots, IngestBegin(s)
  PROVE  AllLinksLatest(work', tx')
<1> DEFINE id == s.collection_id
<1>1. id \in Collections BY SnapshotTypes
<1>2. [snapshot |-> s, done |-> {}] \in Transaction /\ tx' = [snapshot |-> s, done |-> {}]
  BY DEF IngestBegin, Transaction
<1>3. tx' # None BY <1>2, NoRowAssumption
<1>4. work \in Tables /\ tx = None /\ work.runs[id] = None
  BY DEF IngestBegin, LinksInv, TxInv, TypeOK, Idle
<1>5. work'.runs = [work.runs EXCEPT ![id] = s] /\ work'.links = work.links
  BY <1>4 DEF IngestBegin, Tables
<1>6. work.runs \in [Collections -> Snapshots \cup {None}] BY <1>4 DEF Tables
<1>7. \A c \in Collections : c # id => work'.runs[c] = work.runs[c] BY <1>1, <1>5, <1>6
<1>8. tx'.snapshot.collection_id = id /\ tx'.done = {} BY <1>2
<1> HIDE DEF id
<1>9. \A c \in Collections, m \in Machines :
        /\ Seen(work', tx', c, m) <=> Seen(work, tx, c, m)
        /\ Seen(work, tx, c, m) => work'.runs[c] = work.runs[c]
  BY <1>3, <1>4, <1>7, <1>8 DEF Seen
<1>10. AllLinksLatest(work, tx) BY DEF LinksInv
<1>11. work'.links = work.links BY <1>5
<1> QED BY <1>9, <1>10, <1>11, SameLinks

LEMMA CommitKeepsLinks ==
  ASSUME LinksInv, IngestCommit
  PROVE  AllLinksLatest(work', None)
<1> DEFINE s == tx.snapshot
<1>1. s \in Snapshots /\ tx # None
  BY TransactionTypes DEF IngestCommit, LinksInv, TxInv, Idle
<1>2. work'.runs = work.runs /\ work'.links = work.links
  BY <1>1, AfterMarkingFields DEF IngestCommit, LinksInv, TxInv, TypeOK
<1>3. tx.done = Reported(s) /\ work.runs[s.collection_id] = s
  <2>1. tx.done = Reported(s)
    BY <1>1 DEF IngestCommit, Remaining, LinksInv, TxInv, TransactionInv
  <2>2. db.runs \in [Collections -> Snapshots \cup {None}] /\ s.collection_id \in Collections
    BY <1>1, SnapshotTypes DEF LinksInv, TxInv, TypeOK, Tables
  <2> QED BY <1>1, <2>1, <2>2 DEF LinksInv, TxInv, TransactionInv
<1>4. \A c \in Collections, m \in Machines :
        /\ Seen(work', None, c, m) <=> Seen(work, tx, c, m)
        /\ Seen(work, tx, c, m) => work'.runs[c] = work.runs[c]
  BY <1>1, <1>2, <1>3 DEF Seen
<1>5. AllLinksLatest(work, tx) BY DEF LinksInv
<1> QED BY <1>2, <1>4, <1>5, SameLinks

LEMMA InitLinksInv == Init => LinksInv
<1> SUFFICES ASSUME Init PROVE LinksInv OBVIOUS
<1>1. TxInv BY InitTxInv
<1>2. /\ \A c \in Collections : db.runs[c] = None
      /\ \A i \in Instances, p \in Peers : db.links[i][p] = None
      /\ work = db /\ tx = None
  BY DEF Init
<1>3. AllLinksLatest(db, None)
  BY <1>2 DEF AllLinksLatest, LinkLatest, LinkObserved, LinkSeen, Sees, Seen
<1> QED BY <1>1, <1>2, <1>3 DEF LinksInv

LEMMA NextLinksInv == LinksInv /\ [Next]_vars => LinksInv'
<1> SUFFICES ASSUME LinksInv, [Next]_vars PROVE LinksInv' OBVIOUS
<1>1. TxInv' BY NextTxInv DEF LinksInv
<1>2. ASSUME db' = db, work' = work, tx' = tx PROVE LinksInv'
  BY <1>1, <1>2 DEF LinksInv
<1>3. ASSUME NEW s \in Snapshots, IngestBegin(s) PROVE LinksInv'
  <2>1. db' = db BY <1>3 DEF IngestBegin
  <2> QED BY <1>1, <1>3, <2>1, BeginKeepsLinks DEF LinksInv
<1>4. ASSUME NEW m \in Machines, IngestMachine(m) PROVE LinksInv'
  <2>1. db' = db BY <1>4 DEF IngestMachine
  <2>2. TxInv /\ AllLinksLatest(work, tx) BY DEF LinksInv
  <2>3. AllLinksLatest(work', tx') BY <1>4, <2>2, MachineStepLinks DEF AllLinksLatest
  <2> QED BY <1>1, <2>1, <2>3 DEF LinksInv
<1>5. CASE Rollback
  <2>1. work' = db /\ db' = db /\ tx' = None BY <1>5 DEF Rollback
  <2> QED BY <1>1, <2>1 DEF LinksInv
<1>6. CASE IngestCommit
  <2>1. db' = work' /\ tx' = None BY <1>6 DEF IngestCommit
  <2> QED BY <1>1, <1>6, <2>1, CommitKeepsLinks DEF LinksInv
<1>7. ASSUME NEW s \in Snapshots, IngestInvalid(s) \/ IngestDuplicate(s) PROVE LinksInv'
  BY <1>2, <1>7 DEF IngestInvalid, IngestDuplicate
<1>8. CASE UNCHANGED vars BY <1>2, <1>8 DEF vars
<1> QED BY <1>3, <1>4, <1>5, <1>6, <1>7, <1>8 DEF Next

(* However late, repeated or interrupted its deliveries, a stored link is  *)
(* what an ingested snapshot saw, and no ingested sighting is lost to any  *)
(* but a later one, of the link or of routes without it.                   *)
THEOREM LinksLatest == Spec => []LinkRowsAreLatest
<1>1. ASSUME LinksInv PROVE LinkRowsAreLatest
  <2>1. ASSUME NEW i \in Instances, NEW p \in Peers, NEW c \in Collections, NEW m \in Machines
        PROVE  /\ LinkSeen(db, None, c, m, i, p) <=> SawLink(c, m, i, p)
               /\ NoLinkSeen(db, None, c, m, i, p) <=> SawNoLink(c, m, i, p)
    <3>1. Sees(db, None, c, m, i) <=> Ingested(c) /\ m \in Hosts(db.runs[c], i)
      BY Zenon DEF Sees, Seen, View, Ingested, Hosts, Listed, Reported
    <3> QED BY <3>1 DEF LinkSeen, NoLinkSeen, SawLink, SawNoLink, View
  <2>2. ASSUME NEW i \in Instances, NEW p \in Peers PROVE LinkLatest(db, None, i, p)
    BY <1>1 DEF LinksInv, AllLinksLatest
  <2>3. ASSUME NEW i \in Instances, NEW p \in Peers, db.links[i][p] # None
        PROVE  \E c \in Collections, m \in Machines :
                 /\ SawLink(c, m, i, p)
                 /\ db.runs[c].completed_at = db.links[i][p].completed_at
                 /\ db.runs[c].machines[m].instances[i].observed_at = db.links[i][p].observed_at
                 /\ db.runs[c].machines[m].instances[i].peers[p].direct = db.links[i][p].direct
    BY <2>1, <2>2, <2>3, Zenon DEF LinkLatest, LinkObserved, View
  <2>4. ASSUME NEW i \in Instances, NEW p \in Peers, NEW c \in Collections, NEW m \in Machines,
               SawLink(c, m, i, p)
        PROVE  \/ /\ db.links[i][p] # None
                  /\ ~IsLater(db.runs[c].machines[m].instances[i].observed_at,
                              db.runs[c].completed_at,
                              db.links[i][p].observed_at, db.links[i][p].completed_at)
               \/ \E d \in Collections, n \in Machines :
                    /\ SawNoLink(d, n, i, p)
                    /\ IsLater(db.runs[d].machines[n].instances[i].observed_at,
                               db.runs[d].completed_at,
                               db.runs[c].machines[m].instances[i].observed_at,
                               db.runs[c].completed_at)
    <3>1. LinkRecorded(db, None, i, p, View(db, c, m, i).observed_at, db.runs[c].completed_at)
      BY <2>1, <2>2, <2>4, Zenon DEF LinkLatest
    <3> QED BY <2>1, <3>1, Zenon DEF LinkRecorded, View
  <2> QED BY <2>3, <2>4, Zenon DEF LinkRowsAreLatest
<1>2. LinksInv => LinkRowsAreLatest BY <1>1
<1> QED BY InitLinksInv, NextLinksInv, <1>2, PTL DEF Spec

-----------------------------------------------------------------------------
(* Link details survive. A link's details name an ingested run; while a    *)
(* transaction runs, good details stay good until the instance's machine   *)
(* is done, and are then good or gone.                                     *)
Sourced(t) ==
  \A i \in Instances, p \in Peers :
    t.links[i][p] # None => t.runs[t.links[i][p].details] # None

DetailsSoFar ==
  tx # None =>
    \A i \in Instances, p \in Peers :
      GoodDetails(db, i, p) /\ ~Cloned(tx.snapshot, i) =>
        \/ work.links[i][p] = None /\ Hosts(tx.snapshot, i) \subseteq tx.done
        \/ GoodDetails(work, i, p)

DetailInv == TxInv /\ Sourced(db) /\ Sourced(work) /\ DetailsSoFar

LEMMA BeginKeepsDetails ==
  ASSUME DetailInv, NEW s \in Snapshots, IngestBegin(s)
  PROVE  Sourced(work') /\ DetailsSoFar'
<1> DEFINE id == s.collection_id
<1>1. id \in Collections /\ s # None BY SnapshotTypes
<1>2. work = db /\ db \in Tables /\ db' = db /\ db.runs[id] = None
  BY DEF IngestBegin, DetailInv, TxInv, TypeOK, WorkIsCommitted
<1>3. /\ work'.runs = [db.runs EXCEPT ![id] = s] /\ work'.links = db.links
      /\ db.runs \in [Collections -> Snapshots \cup {None}]
  BY <1>2 DEF IngestBegin, Tables
<1>4. \A i \in Instances, p \in Peers : db.links[i][p] # None =>
        db.links[i][p].details \in Collections
  BY <1>2 DEF Tables, LinkRow
<1>5. \A i \in Instances, p \in Peers : db.links[i][p] # None =>
        /\ db.runs[db.links[i][p].details] # None
        /\ work'.runs[db.links[i][p].details] = db.runs[db.links[i][p].details]
  BY <1>1, <1>2, <1>3, <1>4 DEF DetailInv, Sourced
<1>6. Sourced(work')
  <2> SUFFICES ASSUME NEW i \in Instances, NEW p \in Peers, work'.links[i][p] # None
               PROVE  work'.runs[work'.links[i][p].details] # None
    BY Zenon DEF Sourced
  <2>1. work'.links[i][p] = db.links[i][p] BY <1>3
  <2> QED BY <1>5, <2>1, Zenon
<1>7. ASSUME NEW i \in Instances, NEW p \in Peers, GoodDetails(db, i, p)
      PROVE  GoodDetails(work', i, p)
  <2> DEFINE d == db.links[i][p].details
  <2>1. db.links[i][p] # None BY <1>7, Zenon DEF GoodDetails
  <2>2. work'.links[i][p] = db.links[i][p] /\ work'.runs[d] = db.runs[d]
    BY <1>3, <1>5, <2>1
  <2>3. \E n \in Hosts(db.runs[d], i) : "list_peers" \notin db.runs[d].machines[n].instances[i].errors
    BY <1>7, Zenon DEF GoodDetails
  <2>4. work'.links[i][p].details = d BY <2>2
  <2>5. \E n \in Hosts(work'.runs[d], i) :
          "list_peers" \notin work'.runs[d].machines[n].instances[i].errors
    BY <2>2, <2>3, Zenon
  <2> HIDE DEF d
  <2> QED BY <2>1, <2>2, <2>4, <2>5, Zenon DEF GoodDetails
<1> QED BY <1>2, <1>6, <1>7 DEF DetailsSoFar

LEMMA MachineKeepsDetails ==
  ASSUME DetailInv, NEW m \in Machines, IngestMachine(m)
  PROVE  Sourced(work') /\ DetailsSoFar'
<1> DEFINE s == tx.snapshot
<1>1. /\ s \in Snapshots /\ m \in Reported(s) /\ work'.runs = work.runs
      /\ work.runs[s.collection_id] = s /\ s # None
  BY MachineSees, SnapshotTypes DEF DetailInv
<1>2. /\ tx \in Transaction /\ tx'.snapshot = s /\ tx'.done = tx.done \cup {m}
      /\ tx # None /\ db' = db /\ TxInv /\ m \notin tx.done
  BY TransactionTypes
     DEF IngestMachine, Transaction, DetailInv, TxInv, Idle, IsNext, Remaining
<1> HIDE DEF s
<1>3. ASSUME NEW i \in Instances, NEW p \in Peers
      PROVE  /\ work'.links[i][p] # None =>
                  work'.runs[work'.links[i][p].details] # None
             /\ GoodDetails(db, i, p) /\ ~Cloned(s, i) =>
                  \/ work'.links[i][p] = None /\ Hosts(s, i) \subseteq tx.done \cup {m}
                  \/ GoodDetails(work', i, p)
  <2> DEFINE v   == s.machines[m].instances[i]
             row == work.links[i][p]
             new == work'.links[i][p]
  <2>1. /\ row \in LinkRow \cup {None}
        /\ m \in Hosts(s, i) <=> v # None
        /\ v # None => v \in InstanceView /\ v.peers[p] \in PeerView \cup {None}
        /\ v = None => new = row
        /\ v # None /\ v.peers[p] # None => new = upsertPeer(row, s, v, v.peers[p])
        /\ v # None /\ v.peers[p] = None => new = IF IsStalePeer(row, s, v) THEN None ELSE row
    <3>1. TxInv BY <1>2
    <3> QED BY <3>1, LinkStep, Zenon DEF s
  <2>2. row # None => work.runs[row.details] # None BY DEF DetailInv, Sourced
  <2>3. GoodDetails(db, i, p) /\ ~Cloned(s, i) =>
          \/ row = None /\ Hosts(s, i) \subseteq tx.done
          \/ GoodDetails(work, i, p)
    BY <1>2 DEF DetailInv, DetailsSoFar, s
  <2>4. GoodDetails(work, i, p) <=>
          row # None /\ \E n \in Hosts(work.runs[row.details], i) :
             "list_peers" \notin work.runs[row.details].machines[n].instances[i].errors
    BY DEF GoodDetails
  <2>5. GoodDetails(work', i, p) <=>
          new # None /\ \E n \in Hosts(work.runs[new.details], i) :
             "list_peers" \notin work.runs[new.details].machines[n].instances[i].errors
    BY <1>1 DEF GoodDetails
  <2>6. ~Cloned(s, i) /\ v # None => Hosts(s, i) \subseteq {m} BY <2>1 DEF Cloned
  <2>7. CASE v # None /\ v.peers[p] # None
    <3>1. /\ new # None
          /\ \/ row # None /\ new.details = row.details
             \/ new.details = s.collection_id /\ (row = None \/ "list_peers" \notin v.errors)
      <4> HIDE DEF v, row, new
      <4>1. /\ row \in LinkRow \cup {None} /\ s \in Snapshots /\ v \in InstanceView
            /\ v.peers[p] \in PeerView /\ new = upsertPeer(row, s, v, v.peers[p])
        BY <1>1, <2>1, <2>7
      <4> QED BY <4>1, UpsertPeerMeans
    <3> HIDE DEF row, new
    <3>2. work.runs[new.details] # None BY <1>1, <2>2, <3>1
    <3>3. GoodDetails(db, i, p) /\ ~Cloned(s, i) => GoodDetails(work', i, p)
      <4> SUFFICES ASSUME GoodDetails(db, i, p), ~Cloned(s, i) PROVE GoodDetails(work', i, p)
        BY Zenon
      <4>1. GoodDetails(work, i, p) /\ row # None
        BY <1>2, <2>1, <2>3, <2>4, <2>7
      <4> HIDE DEF v
      <4>2. CASE new.details = row.details
        <5>1. \E n \in Hosts(work.runs[row.details], i) :
                "list_peers" \notin work.runs[row.details].machines[n].instances[i].errors
          BY <2>4, <4>1, Zenon
        <5>2. \E n \in Hosts(work.runs[new.details], i) :
                "list_peers" \notin work.runs[new.details].machines[n].instances[i].errors
          BY <4>2, <5>1, Zenon
        <5> QED BY <2>5, <3>1, <5>2, Zenon
      <4>3. CASE new.details = s.collection_id /\ "list_peers" \notin v.errors
        <5>1. work.runs[new.details] = s /\ m \in Hosts(s, i) BY <1>1, <2>1, <2>7, <4>3, Zenon
        <5>2. "list_peers" \notin work.runs[new.details].machines[m].instances[i].errors
          BY <4>3, <5>1, Zenon DEF v
        <5>3. m \in Hosts(work.runs[new.details], i) BY <5>1, Zenon
        <5> QED BY <2>5, <3>1, <5>2, <5>3, Zenon
      <4> QED BY <3>1, <4>1, <4>2, <4>3, Zenon
    <3> QED BY <1>1, <3>2, <3>3 DEF new
  <2>8. CASE new = row
    BY <1>1, <2>2, <2>3, <2>4, <2>5, <2>8, Zenon
  <2>9. CASE v # None /\ new = None
    BY <2>6, <2>9
  <2> QED BY <2>1, <2>7, <2>8, <2>9
<1> QED BY <1>2, <1>3 DEF Sourced, DetailsSoFar

LEMMA InitDetailInv == Init => DetailInv
BY InitTxInv DEF Init, DetailInv, Sourced, DetailsSoFar

LEMMA NextDetailInv == DetailInv /\ [Next]_vars => DetailInv'
<1> SUFFICES ASSUME DetailInv, [Next]_vars PROVE DetailInv' OBVIOUS
<1>1. TxInv' BY NextTxInv DEF DetailInv
<1>2. ASSUME db' = db, work' = work, tx' = tx PROVE DetailInv'
  BY <1>1, <1>2 DEF DetailInv, DetailsSoFar
<1>3. ASSUME NEW s \in Snapshots, IngestBegin(s) PROVE DetailInv'
  <2>1. db' = db BY <1>3 DEF IngestBegin
  <2> QED BY <1>1, <1>3, <2>1, BeginKeepsDetails DEF DetailInv
<1>4. ASSUME NEW m \in Machines, IngestMachine(m) PROVE DetailInv'
  <2>1. db' = db BY <1>4 DEF IngestMachine
  <2> QED BY <1>1, <1>4, <2>1, MachineKeepsDetails DEF DetailInv
<1>5. CASE Rollback
  <2>1. work' = db /\ db' = db /\ tx' = None BY <1>5 DEF Rollback
  <2> QED BY <1>1, <2>1 DEF DetailInv, DetailsSoFar
<1>6. CASE IngestCommit
  <2>1. work'.links = work.links /\ work'.runs = work.runs /\ db' = work' /\ tx' = None
    BY <1>6, TransactionTypes, AfterMarkingFields DEF IngestCommit, DetailInv, TxInv, TypeOK
  <2>2. Sourced(work') BY <2>1 DEF DetailInv, Sourced
  <2> QED BY <1>1, <2>1, <2>2 DEF DetailInv, DetailsSoFar
<1>7. ASSUME NEW s \in Snapshots, IngestInvalid(s) \/ IngestDuplicate(s) PROVE DetailInv'
  BY <1>2, <1>7 DEF IngestInvalid, IngestDuplicate
<1>8. CASE UNCHANGED vars BY <1>2, <1>8 DEF vars
<1> QED BY <1>3, <1>4, <1>5, <1>6, <1>7, <1>8 DEF Next

(* Details a successful list_peers has delivered are lost to no failed     *)
(* one: upsertPeer's CASE expressions keep them.                           *)
THEOREM DetailsSurvive == Spec => DetailsSurviveFailure
<1> DEFINE Survive ==
      \A i \in Instances, p \in Peers :
        GoodDetails(db, i, p) /\ ~(Committing /\ Cloned(tx.snapshot, i))
          => db'.links[i][p] = None \/ GoodDetails(db', i, p)
<1>1. ASSUME DetailInv, [Next]_vars PROVE Survive
  <2>1. CASE db' = db BY <2>1
  <2>2. CASE db' # db
    <3>1. IngestCommit BY <1>1, <2>2, CommittingMeans
    <3>2. tx # None /\ Committing BY <2>2, <3>1 DEF IngestCommit, Committing, Idle
    <3>3. db'.links = work.links /\ db'.runs = work.runs
      BY <1>1, <3>1, TransactionTypes, AfterMarkingFields
         DEF IngestCommit, DetailInv, TxInv, TypeOK
    <3>4. \A i \in Instances, p \in Peers : GoodDetails(db', i, p) <=> GoodDetails(work, i, p)
      BY <3>3 DEF GoodDetails
    <3> QED BY <1>1, <3>2, <3>3, <3>4 DEF DetailInv, DetailsSoFar
  <2> QED BY <2>1, <2>2
<1>2. DetailInv /\ [Next]_vars => [Survive]_vars BY <1>1
<1> QED BY InitDetailInv, NextDetailInv, <1>2, PTL DEF Spec, DetailsSurviveFailure

-----------------------------------------------------------------------------
(* In order, the store implements LiveTopology. Snapshots that are fresh   *)
(* when their transaction begins are fresh until it commits, so each guard *)
(* lets its statement through, the links' guards too.                      *)
LinksBounded(t) ==
  \A i \in Instances, p \in Peers : t.links[i][p] # None => Bounded(t, t.links[i][p])

LinkKept(i, p, m) ==
  LET v == tx.snapshot.machines[m].instances[i] IN
  \/ v.peers[p] # None
  \/ "list_routes" \in v.errors /\ db.links[i][p] # None

LinkProgress(i, p) ==
  LET hosts == Hosts(tx.snapshot, i) IN
  /\ hosts \cap tx.done = {} => work.links[i][p] = db.links[i][p]
  /\ \A m \in hosts \cap tx.done :
       hosts = {m} => (work.links[i][p] # None <=> LinkKept(i, p, m))

LiveInv ==
  /\ FreshInv /\ KeepInv
  /\ LinksBounded(db) /\ LinksBounded(work)
  /\ tx # None => /\ Fresh(tx.snapshot) /\ InWindow(tx.snapshot)
                  /\ \A i \in Instances, p \in Peers : LinkProgress(i, p)

LEMMA InOrderIsNext == InOrderNext => Next
BY DEF InOrderNext, Next

LEMMA BeginKeepsLive ==
  ASSUME LiveInv, NEW s \in Snapshots, Fresh(s), InWindow(s), IngestBegin(s)
  PROVE  /\ LinksBounded(work')
         /\ Fresh(tx.snapshot)' /\ InWindow(tx.snapshot)'
         /\ \A i \in Instances, p \in Peers : LinkProgress(i, p)'
<1> DEFINE id == s.collection_id
<1>1. id \in Collections /\ s # None BY SnapshotTypes
<1>2. work = db /\ db \in Tables /\ db' = db /\ db.runs[id] = None
  BY DEF IngestBegin, LiveInv, FreshInv, TxInv, TypeOK, WorkIsCommitted
<1>3. /\ work'.runs = [db.runs EXCEPT ![id] = s] /\ work'.links = db.links
      /\ db.runs \in [Collections -> Snapshots \cup {None}]
  BY <1>2 DEF IngestBegin, Tables
<1>4. tx'.snapshot = s /\ tx'.done = {} BY DEF IngestBegin
<1>5. \A c \in Collections : db.runs[c] # None => work'.runs[c] = db.runs[c]
  BY <1>1, <1>2, <1>3
<1>6. ASSUME NEW row, Bounded(db, row) PROVE Bounded(work', row)
  BY <1>5, <1>6 DEF Bounded
<1>7. LinksBounded(work') BY <1>3, <1>6 DEF LiveInv, LinksBounded
<1>8. Fresh(s)' BY <1>2 DEF Fresh, Ingested
<1>9. \A i \in Instances, p \in Peers : LinkProgress(i, p)'
  BY <1>2, <1>3, <1>4 DEF LinkProgress
<1> QED BY <1>4, <1>7, <1>8, <1>9

LEMMA MachineKeepsLinks ==
  ASSUME LiveInv, NEW m \in Machines, IngestMachine(m)
  PROVE  LinksBounded(work')
<1> DEFINE s == tx.snapshot
<1>1. /\ s \in Snapshots /\ m \in Reported(s) /\ s.collection_id \in Collections
      /\ work.runs[s.collection_id] = s /\ work'.runs = work.runs /\ TxInv
  BY MachineSees DEF LiveInv, FreshInv
<1>2. Validate(s) /\ s # None /\ s.completed_at \in Nat
  BY <1>1, SnapshotTypes DEF IngestMachine, Idle, TxInv, TransactionInv
<1>3. ASSUME NEW row, row.observed_at <= s.completed_at, row.completed_at <= s.completed_at
      PROVE  Bounded(work', row)
  <2>1. work'.runs[s.collection_id] # None /\ work'.runs[s.collection_id] = s BY <1>1, <1>2
  <2> HIDE DEF s
  <2> QED BY <1>1, <1>3, <2>1, Zenon DEF Bounded
<1>4. ASSUME NEW row, Bounded(work, row) PROVE Bounded(work', row)
  BY <1>1, <1>4 DEF Bounded
<1> SUFFICES ASSUME NEW i \in Instances, NEW p \in Peers, work'.links[i][p] # None
             PROVE  Bounded(work', work'.links[i][p])
  BY DEF LinksBounded
<1> DEFINE v   == s.machines[m].instances[i]
           row == work.links[i][p]
           new == work'.links[i][p]
<1>5. /\ row \in LinkRow \cup {None}
      /\ v # None => v \in InstanceView /\ v.peers[p] \in PeerView \cup {None}
      /\ v = None => new = row
      /\ v # None /\ v.peers[p] # None => new = upsertPeer(row, s, v, v.peers[p])
      /\ v # None /\ v.peers[p] = None => new = IF IsStalePeer(row, s, v) THEN None ELSE row
  <2>1. TxInv BY <1>1
  <2> QED BY <2>1, LinkStep, Zenon
<1>6. CASE new = row
  <2>1. Bounded(work, row) BY <1>6 DEF LiveInv, LinksBounded
  <2> QED BY <1>4, <1>6, <2>1, Zenon
<1>7. CASE new # row
  <2>0. v # None /\ v.peers[p] # None BY <1>5, <1>7
  <2>1. /\ v # None /\ new.observed_at = v.observed_at /\ new.completed_at = s.completed_at
    <3>1. /\ new = upsertPeer(row, s, v, v.peers[p]) /\ row \in LinkRow \cup {None}
          /\ v \in InstanceView /\ v.peers[p] \in PeerView /\ s \in Snapshots
      BY <1>1, <1>5, <2>0
    <3> HIDE DEF new, row, v, s
    <3> QED BY <1>7, <2>0, <3>1, UpsertPeerMeans, Zenon
  <2>2. v.observed_at <= s.completed_at
    BY <1>1, <1>2, <2>1 DEF Validate, Listed
  <2>3. s.completed_at <= s.completed_at BY <1>2
  <2>4. new.observed_at <= s.completed_at /\ new.completed_at <= s.completed_at
    BY <2>1, <2>2, <2>3, Zenon
  <2> QED BY <1>3, <2>4, Zenon
<1> QED BY <1>6, <1>7

LEMMA LinksOlder ==
  ASSUME LiveInv, NEW s \in Snapshots, Fresh(s), NEW i \in Instances, NEW p \in Peers,
         db.links[i][p] # None
  PROVE  db.links[i][p].observed_at \in Nat /\ db.links[i][p].observed_at < s.started_at
<1>1. \A c \in Collections : db.runs[c] # None =>
        db.runs[c].completed_at \in Nat /\ db.runs[c].completed_at < s.started_at
  BY SnapshotTypes DEF LiveInv, FreshInv, TxInv, TypeOK, Tables, Fresh, Ingested
<1>2. s.started_at \in Nat BY SnapshotTypes
<1>3. db.links[i][p].observed_at \in Nat
  BY DEF LiveInv, FreshInv, TxInv, TypeOK, Tables, LinkRow
<1>4. Bounded(db, db.links[i][p]) BY DEF LiveInv, LinksBounded
<1> QED BY <1>1, <1>2, <1>3, <1>4 DEF Bounded

LEMMA MachineKeepsProgress ==
  ASSUME LiveInv, NEW m \in Machines, IngestMachine(m), NEW i \in Instances, NEW p \in Peers
  PROVE  LinkProgress(i, p)'
<1> DEFINE s == tx.snapshot
           v == s.machines[m].instances[i]
           row == work.links[i][p]
           new == work'.links[i][p]
           old == db.links[i][p]
<1>1. /\ tx \in Transaction /\ tx'.snapshot = s /\ tx'.done = tx.done \cup {m}
      /\ tx # None /\ db' = db /\ TxInv /\ m \notin tx.done
  BY TransactionTypes
     DEF IngestMachine, Transaction, LiveInv, FreshInv, TxInv, Idle, IsNext, Remaining
<1>2. /\ s \in Snapshots /\ m \in Reported(s) /\ row \in LinkRow \cup {None}
      /\ m \in Hosts(s, i) <=> v # None
      /\ v # None => /\ v \in InstanceView /\ v.observed_at \in Nat
                     /\ v.peers[p] \in PeerView \cup {None}
      /\ v = None => new = row
      /\ v # None /\ v.peers[p] # None => new = upsertPeer(row, s, v, v.peers[p])
      /\ v # None /\ v.peers[p] = None => new = IF IsStalePeer(row, s, v) THEN None ELSE row
  <2>1. TxInv BY <1>1
  <2> QED BY <2>1, LinkStep, Zenon
<1>3. /\ Fresh(s) /\ InWindow(s)
      /\ Hosts(s, i) \cap tx.done = {} => row = old
      /\ \A n \in Hosts(s, i) \cap tx.done : Hosts(s, i) = {n} => (row # None <=> LinkKept(i, p, n))
  BY <1>1 DEF LiveInv, LinkProgress
<1>4. \A n : LinkKept(i, p, n)' <=> LinkKept(i, p, n) BY <1>1 DEF LinkKept
<1>5. CASE v = None
  BY <1>1, <1>2, <1>3, <1>4, <1>5 DEF LinkProgress
<1>6. CASE v # None
  <2>1. m \in Hosts(s, i) /\ Hosts(s, i) \cap tx'.done # {} BY <1>1, <1>2, <1>6
  <2>2. ASSUME Hosts(s, i) = {m} PROVE new # None <=> LinkKept(i, p, m)
    <3>1. row = old
      <4>1. Hosts(s, i) \cap tx.done = {} BY <1>1, <2>2
      <4> HIDE DEF s, row, old
      <4> QED BY <1>3, <4>1
    <3>2. LinkKept(i, p, m) <=>
            v.peers[p] # None \/ ("list_routes" \in v.errors /\ old # None)
      BY Zenon DEF LinkKept
    <3>3. CASE v.peers[p] # None
      <4>1. new # None
        <5> HIDE DEF s, v, row, new
        <5>1. /\ row \in LinkRow \cup {None} /\ s \in Snapshots /\ v \in InstanceView
              /\ v.peers[p] \in PeerView /\ new = upsertPeer(row, s, v, v.peers[p])
          BY <1>2, <1>6, <3>3
        <5> QED BY <5>1, UpsertPeerMeans
      <4> QED BY <3>2, <3>3, <4>1
    <3>4. CASE v.peers[p] = None
      <4>1. s.started_at \in Nat /\ s.started_at <= v.observed_at
        BY <1>2, <1>3, <1>6, SnapshotTypes DEF InWindow, Listed
      <4>2. old # None => Supersedes(v.observed_at, s.completed_at, old)
        <5>1. old # None => old.observed_at \in Nat /\ old.observed_at < s.started_at
          BY <1>2, <1>3, LinksOlder
        <5> HIDE DEF old, v, s
        <5> QED BY <1>2, <1>6, <4>1, <5>1, SMT DEF Supersedes
      <4>3. IsStalePeer(row, s, v) <=> "list_routes" \notin v.errors /\ old # None
        BY <3>1, <4>2 DEF IsStalePeer, hasOperationError
      <4> QED BY <1>2, <1>6, <3>1, <3>2, <3>4, <4>3, Zenon
    <3> QED BY <3>3, <3>4
  <2>3. \A n \in Hosts(s, i) \cap tx'.done : Hosts(s, i) = {n} => n = m BY <2>1
  <2> QED BY <1>1, <1>4, <2>1, <2>2, <2>3, Zenon DEF LinkProgress
<1> QED BY <1>5, <1>6

LEMMA InitLiveInv == Init => LiveInv
BY InitFreshInv, InitKeepInv DEF Init, LiveInv, LinksBounded

LEMMA NextLiveInv == LiveInv /\ [InOrderNext]_vars => LiveInv'
<1> SUFFICES ASSUME LiveInv, [InOrderNext]_vars PROVE LiveInv' OBVIOUS
<1>1. FreshInv' /\ KeepInv'
  BY InOrderIsNext, NextFreshInv, NextKeepInv DEF LiveInv
<1>2. ASSUME db' = db, work' = work, tx' = tx PROVE LiveInv'
  BY <1>1, <1>2 DEF LiveInv, Fresh, Ingested, LinkProgress, LinkKept
<1>3. ASSUME NEW s \in Snapshots, Fresh(s) /\ InWindow(s) /\ IngestBegin(s) PROVE LiveInv'
  <2>1. db' = db BY <1>3 DEF IngestBegin
  <2>2. /\ LinksBounded(work') /\ Fresh(tx.snapshot)' /\ InWindow(tx.snapshot)'
        /\ \A i \in Instances, p \in Peers : LinkProgress(i, p)'
    BY <1>3, BeginKeepsLive
  <2> QED BY <1>1, <2>1, <2>2 DEF LiveInv
<1>4. ASSUME NEW m \in Machines, IngestMachine(m) PROVE LiveInv'
  <2>1. /\ db' = db /\ tx # None /\ tx'.snapshot = tx.snapshot
    BY <1>4, TransactionTypes
       DEF IngestMachine, Idle, Transaction, LiveInv, FreshInv, TxInv
  <2>2. LinksBounded(work') /\ \A i \in Instances, p \in Peers : LinkProgress(i, p)'
    BY <1>4, MachineKeepsLinks, MachineKeepsProgress
  <2>3. Fresh(tx.snapshot)' /\ InWindow(tx.snapshot)'
    BY <2>1 DEF LiveInv, Fresh, Ingested
  <2> QED BY <1>1, <2>1, <2>2, <2>3 DEF LiveInv
<1>5. CASE Rollback
  <2>1. work' = db /\ db' = db /\ tx' = None BY <1>5 DEF Rollback
  <2> QED BY <1>1, <2>1 DEF LiveInv
<1>6. CASE IngestCommit
  <2>1. work'.links = work.links /\ work'.runs = work.runs /\ db' = work' /\ tx' = None
    BY <1>6, TransactionTypes, AfterMarkingFields
       DEF IngestCommit, LiveInv, FreshInv, TxInv, TypeOK
  <2>2. LinksBounded(work') BY <2>1 DEF LiveInv, LinksBounded, Bounded
  <2> QED BY <1>1, <2>1, <2>2 DEF LiveInv
<1>7. ASSUME NEW s \in Snapshots, IngestInvalid(s) \/ IngestDuplicate(s) PROVE LiveInv'
  BY <1>2, <1>7 DEF IngestInvalid, IngestDuplicate
<1>8. CASE UNCHANGED vars BY <1>2, <1>8 DEF vars
<1> QED BY <1>3, <1>4, <1>5, <1>6, <1>7, <1>8 DEF InOrderNext

(* A commit publishes its snapshot: the run, the machines,                 *)
LEMMA CommitOnline ==
  ASSUME LiveInv, IngestCommit
  PROVE  LET s == tx.snapshot IN
         /\ s \in Snapshots /\ s.collection_id \in Collections
         /\ db.runs[s.collection_id] = None /\ db'.runs[s.collection_id] = s
         /\ db'.runs = [db.runs EXCEPT ![s.collection_id] = s]
         /\ Online' = Reported(s) \cup (IF s.errors # {} THEN Online ELSE {})
<1> DEFINE s == tx.snapshot
<1>1. s \in Snapshots /\ tx # None /\ TxInv
  BY TransactionTypes DEF IngestCommit, LiveInv, FreshInv, TxInv, Idle
<1>2. /\ db'.runs = work.runs
      /\ db'.machines = MissingMachines(work.machines, s)
  BY <1>1, AfterMarkingFields DEF IngestCommit, TxInv, TypeOK
<1>3. s.collection_id \in Collections BY <1>1, SnapshotTypes
<1>4. /\ db.runs[s.collection_id] = None
      /\ db'.runs = [db.runs EXCEPT ![s.collection_id] = s]
  BY <1>1, <1>2 DEF TxInv, TransactionInv
<1>5. db'.runs[s.collection_id] = s
  BY <1>1, <1>3, <1>4 DEF TxInv, TypeOK, Tables
<1>6. Fresh(s) /\ InWindow(s) BY <1>1 DEF LiveInv
<1>7. Converged(db', s) BY <1>6, FreshCommit DEF LiveInv
<1>8. tx.done = Reported(s)
  BY <1>1 DEF IngestCommit, Remaining, TxInv, TransactionInv
<1>9. \A m \in Machines : MachineProgress(m) BY <1>1, <1>6 DEF LiveInv, FreshInv, FreshProgress
<1> HIDE DEF s
<1>10. ASSUME NEW m \in Machines
       PROVE  m \in Online' <=> m \in Reported(s) \/ (s.errors # {} /\ m \in Online)
  <2>1. /\ m \in Online' <=> db'.machines[m] # None /\ db'.machines[m].active
        /\ m \in Online <=> db.machines[m] # None /\ db.machines[m].active
    BY DEF Online
  <2>2. CASE m \in Reported(s) BY <1>7, <2>1, <2>2 DEF Converged
  <2>3. CASE m \notin Reported(s) /\ s.errors = {} BY <1>7, <2>1, <2>3 DEF Converged
  <2>4. CASE m \notin Reported(s) /\ s.errors # {}
    <3>1. db'.machines[m] = db.machines[m]
      BY <1>2, <1>8, <1>9, <2>4 DEF MissingMachines, MachineProgress
    <3> QED BY <2>1, <2>4, <3>1
  <2> QED BY <2>2, <2>3, <2>4
<1>11. Online' \subseteq Machines /\ Online \subseteq Machines /\ Reported(s) \subseteq Machines
  BY DEF Online, Reported
<1>12. Online' = Reported(s) \cup (IF s.errors # {} THEN Online ELSE {})
  BY <1>10, <1>11
<1> QED BY <1>1, <1>3, <1>4, <1>5, <1>12 DEF s

(* the instances it lists, and those it could not read,                    *)
LEMMA CommitHosts ==
  ASSUME LiveInv, IngestCommit, NEW i \in Instances
  PROVE  LET s == tx.snapshot IN
         /\ Hosts(s, i) # {} => HostOf'[i] \in Hosts(s, i)
         /\ Hosts(s, i) = {} =>
              HostOf'[i] = IF HostOf[i] # None /\ Live!Unread(s, HostOf[i])
                           THEN HostOf[i] ELSE None
<1> DEFINE s == tx.snapshot
           row == work.instances[i]
           new == db'.instances[i]
           old == db.instances[i]
           m == db.instances[i].machine_id
<1>1. s \in Snapshots /\ tx # None /\ TxInv
  BY TransactionTypes DEF IngestCommit, LiveInv, FreshInv, TxInv, Idle
<1>2. db'.instances = InstancesOfMissingMachines(work.instances, s)
  BY <1>1, AfterMarkingFields DEF IngestCommit, TxInv, TypeOK
<1>3. /\ HostOf'[i] = IF Alive(new) THEN new.machine_id ELSE None
      /\ HostOf[i] = IF Alive(old) THEN m ELSE None
  BY DEF HostOf, Alive
<1>4. Fresh(s) /\ InWindow(s) BY <1>1 DEF LiveInv
<1>5. Converged(db', s) BY <1>4, FreshCommit DEF LiveInv
<1>6. Hosts(s, i) # {} => Alive(new) /\ new.machine_id \in Hosts(s, i)
  BY <1>5 DEF Converged, Alive
<1>7. ASSUME Hosts(s, i) = {}
      PROVE  HostOf'[i] = IF HostOf[i] # None /\ Live!Unread(s, HostOf[i])
                          THEN HostOf[i] ELSE None
  <2>1. tx.done = Reported(s)
    BY <1>1 DEF IngestCommit, Remaining, TxInv, TransactionInv
  <2>2. /\ row = old \/ (row # None /\ ~row.active)
        /\ Alive(row) /\ row.machine_id \in Reported(s) =>
             s.machines[row.machine_id].errors # {}
    <3>1. ~(Hosts(s, i) \cap tx.done # {}) BY <1>7
    <3>2. InstanceProgress(i) BY <1>1, <1>4 DEF LiveInv, FreshInv, FreshProgress
    <3> QED BY <2>1, <3>1, <3>2 DEF InstanceProgress, Alive
  <2>3. Alive(old) => \/ Alive(new) /\ new.machine_id = m
                      \/ m \in Reported(s) /\ s.machines[m].errors = {}
                      \/ m \notin Reported(s) /\ s.errors = {}
    BY <1>7, CommitKeeps DEF LiveInv
  <2>4. Alive(new) => Alive(row) /\ new = row
    <3>1. row = None \/ row \in InstanceRow BY <1>1 DEF TxInv, TypeOK, Tables
    <3>2. new = row \/ (row # None /\ new = Deactivated(row, s))
      BY <1>2 DEF InstancesOfMissingMachines
    <3> HIDE DEF row, new, s
    <3>3. new # row => ~new.active BY <1>1, <3>1, <3>2, DeactivatedInstance
    <3> QED BY <3>3 DEF Alive
  <2>5. s.errors = {} /\ Alive(new) => new.machine_id \in Reported(s)
    BY <1>5, <1>7 DEF Converged, Alive
  <2>6. Live!Unread(s, m) <=>
          IF m \in Reported(s) THEN "list_network_instances" \in s.machines[m].errors
          ELSE s.errors # {}
    BY DEF Live!Unread, Live!Reported, Live!hasOperationError, Reported
  <2>7. m \in Reported(s) => s.machines[m].errors \subseteq {"list_network_instances"}
    BY <1>1, ViewTypes DEF MachineView, MachineErrors
  <2> HIDE DEF row, new, old, s, m
  <2>8. CASE Alive(old) /\ Live!Unread(s, m)
    <3>1. Alive(new) /\ new.machine_id = m BY <2>3, <2>6, <2>8
    <3> QED BY <1>3, <2>8, <3>1
  <2>9. CASE Alive(old) /\ ~Live!Unread(s, m)
    <3>1. ~Alive(new)
      <4> SUFFICES ASSUME Alive(new) PROVE FALSE OBVIOUS
      <4>1. Alive(row) /\ new = row /\ row = old BY <2>2, <2>4 DEF Alive
      <4>2. row.machine_id = m BY <4>1 DEF old, m
      <4>3. CASE m \in Reported(s)
        BY <2>2, <2>6, <2>7, <2>9, <4>1, <4>2, <4>3
      <4>4. CASE m \notin Reported(s)
        BY <2>5, <2>6, <2>9, <4>1, <4>2, <4>4
      <4> QED BY <4>3, <4>4
    <3> QED BY <1>3, <2>9, <3>1
  <2>10. CASE ~Alive(old)
    <3>1. ~Alive(new) BY <2>2, <2>4, <2>10 DEF Alive
    <3> QED BY <1>3, <2>10, <3>1
  <2> QED BY <2>8, <2>9, <2>10
<1> QED BY <1>3, <1>6, <1>7

(* and the links.                                                          *)
LEMMA CommitLinks ==
  ASSUME LiveInv, IngestCommit, NEW i \in Instances
  PROVE  LET s == tx.snapshot IN
         /\ Hosts(s, i) = {} => Linked'[i] = Linked[i]
         /\ \A m \in Hosts(s, i) : Hosts(s, i) = {m} =>
              Linked'[i] = Live!LinkedPeers(s.machines[m].instances[i]) \cup
                (IF "list_routes" \in s.machines[m].instances[i].errors THEN Linked[i] ELSE {})
<1> DEFINE s == tx.snapshot
<1>1. s \in Snapshots /\ tx # None /\ TxInv
  BY TransactionTypes DEF IngestCommit, LiveInv, FreshInv, TxInv, Idle
<1>2. db'.links = work.links
  BY <1>1, AfterMarkingFields DEF IngestCommit, TxInv, TypeOK
<1>3. tx.done = Reported(s) /\ Hosts(s, i) \subseteq Reported(s)
  BY <1>1 DEF IngestCommit, Remaining, TxInv, TransactionInv, Hosts
<1>4. \A p \in Peers : LinkProgress(i, p) BY <1>1 DEF LiveInv
<1>5. /\ Linked'[i] = {p \in Peers : work.links[i][p] # None}
      /\ Linked[i] = {p \in Peers : db.links[i][p] # None}
  BY <1>2 DEF Linked
<1>6. ASSUME Hosts(s, i) = {} PROVE Linked'[i] = Linked[i]
  BY <1>4, <1>5, <1>6 DEF LinkProgress
<1>7. ASSUME NEW m \in Hosts(s, i), Hosts(s, i) = {m}
      PROVE  Linked'[i] = Live!LinkedPeers(s.machines[m].instances[i]) \cup
                (IF "list_routes" \in s.machines[m].instances[i].errors THEN Linked[i] ELSE {})
  <2>1. \A p \in Peers : work.links[i][p] # None <=> LinkKept(i, p, m)
    BY <1>3, <1>4, <1>7 DEF LinkProgress
  <2> DEFINE v == s.machines[m].instances[i]
  <2>2. \A p \in Peers : LinkKept(i, p, m) <=>
          v.peers[p] # None \/ ("list_routes" \in v.errors /\ db.links[i][p] # None)
    BY DEF LinkKept
  <2>3. Live!LinkedPeers(v) = {p \in Peers : v.peers[p] # None} BY DEF Live!LinkedPeers
  <2> HIDE DEF v
  <2>4. Linked'[i] = Live!LinkedPeers(v) \cup (IF "list_routes" \in v.errors THEN Linked[i] ELSE {})
    BY <1>5, <2>1, <2>2, <2>3
  <2> QED BY <2>4 DEF v
<1> QED BY <1>6, <1>7

LEMMA CommitPublishes ==
  ASSUME LiveInv, IngestCommit
  PROVE  Live!Next
<1> DEFINE s == tx.snapshot
           id == s.collection_id
<1>1. /\ s \in Snapshots /\ id \in Collections
      /\ db.runs[id] = None /\ db'.runs[id] = s
      /\ db'.runs = [db.runs EXCEPT ![id] = s]
      /\ Online' = Reported(s) \cup (IF s.errors # {} THEN Online ELSE {})
  BY CommitOnline
<1>2. /\ Live!Reported(s) = Reported(s)
      /\ \A i : Live!Hosts(s, i) = Hosts(s, i)
  BY DEF Live!Reported, Live!Hosts, Live!Listed, Reported, Hosts, Listed
<1>3. HostOf' \in [Instances -> Machines \cup {None}]
  BY NextTxInv DEF Next, LiveInv, FreshInv, TxInv, TypeOK, Tables, InstanceRow, HostOf
<1>4. Linked' \in [Instances -> SUBSET Peers] BY DEF Linked
<1>5. \A i \in Instances :
        /\ Hosts(s, i) # {} => HostOf'[i] \in Hosts(s, i)
        /\ Hosts(s, i) = {} =>
             /\ HostOf'[i] = IF HostOf[i] # None /\ Live!Unread(s, HostOf[i])
                             THEN HostOf[i] ELSE None
             /\ Linked'[i] = Linked[i]
        /\ \A m \in Hosts(s, i) : Hosts(s, i) = {m} => Linked'[i] = Live!LinksAfter(s, i, m)
  BY CommitHosts, CommitLinks DEF Live!LinksAfter, Live!hasOperationError
<1> HIDE DEF s, id
<1>6. Live!Publish(s)
  BY <1>1, <1>2, <1>3, <1>4, <1>5 DEF Live!Publish, id
<1> QED BY <1>1, <1>6 DEF Live!Next

(* With snapshots in order, every behaviour of the store is one of the     *)
(* abstract topology: each commit publishes one snapshot, everything else  *)
(* is invisible to the readers.                                            *)
THEOREM Implements == InOrderSpec => ImplementsLiveTopology
<1>1. Init => Live!Init
  BY DEF Init, Live!Init, Online, HostOf, Linked
<1>2. LiveInv /\ [InOrderNext]_vars => [Live!Next]_(Live!vars)
  <2> SUFFICES ASSUME LiveInv, [InOrderNext]_vars PROVE [Live!Next]_(Live!vars)
    OBVIOUS
  <2>1. CASE db' = db
    BY <2>1 DEF Live!vars, Online, HostOf, Linked
  <2>2. CASE db' # db
    <3>1. IngestCommit BY <2>2, InOrderIsNext, CommittingMeans
    <3> QED BY <3>1, CommitPublishes
  <2> QED BY <2>1, <2>2
<1> QED BY InitLiveInv, NextLiveInv, <1>1, <1>2, PTL
       DEF InOrderSpec, ImplementsLiveTopology, Live!Spec
=============================================================================
