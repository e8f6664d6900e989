------------------------- MODULE ControllersProofs -------------------------
(***************************************************************************)
(* Theorems about Controllers, for any number of controllers, machines and *)
(* collections: what overlapping ingestions under READ COMMITTED leave in  *)
(* the tables, what a worker reports, what a process leaves behind, and    *)
(* what starting controllers make of the migrations.                       *)
(***************************************************************************)
EXTENDS Controllers, SequenceTheorems, TLAPS

(* What the statements make of a row.                                      *)
Upserted(row, k) ==
  IF Newer(row, k) THEN [observed |-> k, completed |-> k, active |-> TRUE] ELSE row

Remarked(row, k) == IF Absent(row, k) THEN Marked(row, k) ELSE row

DataOK ==
  /\ reports \in Histories
  /\ runs \subseteq Ids
  /\ rows \in [Machines -> Row \cup {None}]
  /\ tx \in [Controllers -> Transaction]
  /\ commits \in [Ids -> Nat]

(* The key of the run row: an open transaction's collection is committed   *)
(* by nobody and being ingested by nobody else.                            *)
KeysAreHeld ==
  \A c \in Controllers : tx[c].stage # "none" =>
    /\ tx[c].coll \notin runs
    /\ \A d \in Controllers \ {c} : tx[d].stage = "none" \/ tx[d].coll # tx[c].coll

(* Row locks: a row written by one transaction is written by no other.     *)
RowsAreHeld ==
  \A c, d \in Controllers, m \in Machines :
    c # d => tx[c].writes[m] = None \/ tx[d].writes[m] = None

(* So a row version written is still what its statement would write now.   *)
WritesAreCurrent ==
  \A c \in Controllers, m \in Machines :
    tx[c].stage # "none" /\ tx[c].writes[m] # None =>
      LET k == tx[c].coll IN
      IF m \in reports[k].listed THEN tx[c].writes[m] = Upserted(rows[m], k)
      ELSE reports[k].complete /\ tx[c].writes[m] = Remarked(rows[m], k)

(* A listed machine is waiting for its upsert or has it.                   *)
ListedWritten(c) ==
  /\ tx[c].stage # "none" =>
       \A m \in reports[tx[c].coll].listed :
         (tx[c].stage = "upsert" /\ m \in tx[c].todo) \/ tx[c].writes[m] # None
  /\ tx[c].stage = "upsert" => tx[c].todo \subseteq reports[tx[c].coll].listed
  /\ tx[c].stage = "mark" =>
       /\ reports[tx[c].coll].complete
       /\ tx[c].todo \cap reports[tx[c].coll].listed = {}

ListedAreWritten == \A c \in Controllers : ListedWritten(c)

RowsAreOrdered ==
  \A m \in Machines : rows[m] # None => rows[m].observed <= rows[m].completed

DataInv ==
  /\ DataOK /\ KeysAreHeld /\ RowsAreHeld /\ WritesAreCurrent /\ ListedAreWritten
  /\ RowsAreOrdered /\ CommittedOnce /\ NewestObservationWins /\ InactiveIsExplained

-----------------------------------------------------------------------------
LEMMA IdsAreNat ==
  ASSUME reports \in Histories
  PROVE  /\ Ids \subseteq Nat
         /\ 1 \in Ids
         /\ \A k \in Ids : /\ reports[k].listed \subseteq Machines
                           /\ reports[k].complete \in BOOLEAN
<1>1. reports \in Seq([listed : SUBSET Machines, complete : BOOLEAN]) /\ reports # <<>>
  BY HistoriesAssumption
<1>2. Ids = 1 .. Len(reports) /\ Len(reports) \in Nat
  BY <1>1 DEF Ids
<1>3. Len(reports) # 0
  BY <1>1, EmptySeq
<1>4. \A k \in Ids : reports[k] \in [listed : SUBSET Machines, complete : BOOLEAN]
  BY <1>1, <1>2, ElementOfSeq
<1> QED BY <1>2, <1>3, <1>4

LEMMA RowsAreRecords ==
  ASSUME reports \in Histories
  PROVE  None \notin Row
BY IdsAreNat, NoneAssumption DEF Row

LEMMA NoTransactionType ==
  ASSUME reports \in Histories
  PROVE  /\ NoTransaction \in Transaction
         /\ NoTransaction.stage = "none"
         /\ \A m \in Machines : NoTransaction.writes[m] = None
BY IdsAreNat DEF NoTransaction, Transaction, Stages

LEMMA InitData == Init => DataInv
<1> SUFFICES ASSUME Init PROVE DataInv
  OBVIOUS
<1>1. DataOK
  BY NoTransactionType DEF Init, DataOK
<1>2. \A c \in Controllers : tx[c] = NoTransaction
  BY DEF Init
<1>3. KeysAreHeld /\ RowsAreHeld /\ WritesAreCurrent /\ ListedAreWritten
  BY <1>2, NoTransactionType
     DEF Init, KeysAreHeld, RowsAreHeld, WritesAreCurrent, ListedAreWritten,
      ListedWritten
<1>4. RowsAreOrdered /\ CommittedOnce /\ NewestObservationWins /\ InactiveIsExplained
  BY DEF Init, RowsAreOrdered, CommittedOnce, NewestObservationWins, InactiveIsExplained
<1> QED BY <1>1, <1>3, <1>4 DEF DataInv

(* Steps of the processes leave the tables alone.                          *)
LEMMA DataUnchanged ==
  ASSUME DataInv, UNCHANGED <<reports, runs, rows, tx, commits>>
  PROVE  DataInv'
<1>1. DataOK'
  BY DEF DataInv, DataOK, Ids, Row, Transaction
<1>2. KeysAreHeld' /\ RowsAreHeld' /\ WritesAreCurrent'
  BY DEF DataInv, KeysAreHeld, RowsAreHeld, WritesAreCurrent
<1>3. ListedAreWritten'
  BY DEF DataInv, ListedAreWritten, ListedWritten
<1>4. RowsAreOrdered' /\ CommittedOnce' /\ NewestObservationWins' /\ InactiveIsExplained'
  BY DEF DataInv, RowsAreOrdered, CommittedOnce, NewestObservationWins, InactiveIsExplained, Ids
<1> QED BY <1>1, <1>2, <1>3, <1>4 DEF DataInv

(* A transaction that is rolled back leaves nothing.                       *)
LEMMA DataDiscarded ==
  ASSUME DataInv, NEW c \in Controllers, tx' = [tx EXCEPT ![c] = NoTransaction],
         UNCHANGED <<reports, runs, rows, commits>>
  PROVE  DataInv'
<1>1. tx'[c] = NoTransaction /\ \A d \in Controllers \ {c} : tx'[d] = tx[d]
  BY DEF DataInv, DataOK
<1>2. Ids' = Ids /\ Row' = Row /\ Transaction' = Transaction
  BY DEF Ids, Row, Transaction
<1>3. DataOK'
  BY <1>2, NoTransactionType DEF DataInv, DataOK
<1>4. KeysAreHeld' /\ RowsAreHeld'
  BY <1>1, NoTransactionType DEF DataInv, DataOK, KeysAreHeld, RowsAreHeld
<1>5. WritesAreCurrent' /\ ListedAreWritten'
  BY <1>1, NoTransactionType DEF DataInv, DataOK, WritesAreCurrent, ListedAreWritten,
      ListedWritten
<1>6. RowsAreOrdered' /\ CommittedOnce' /\ NewestObservationWins' /\ InactiveIsExplained'
  BY <1>2 DEF DataInv, RowsAreOrdered, CommittedOnce, NewestObservationWins,
              InactiveIsExplained
<1> QED BY <1>3, <1>4, <1>5, <1>6 DEF DataInv

(* A transaction outlives its attempt, in the place of another that has    *)
(* none: nothing of it is lost, and its locks are held as before.          *)
LEMMA DataMoved ==
  ASSUME DataInv, NEW c \in Controllers, NEW a \in Controllers, a # c,
         tx[a] = NoTransaction,
         tx' = [tx EXCEPT ![a] = tx[c], ![c] = NoTransaction],
         UNCHANGED <<reports, runs, rows, commits>>
  PROVE  DataInv'
<1>1. /\ tx'[c] = NoTransaction /\ tx'[a] = tx[c]
      /\ \A d \in Controllers \ {c, a} : tx'[d] = tx[d]
  BY DEF DataInv, DataOK
<1>2. Ids' = Ids /\ Row' = Row /\ Transaction' = Transaction
  BY DEF Ids, Row, Transaction
<1>3. DataOK'
  BY <1>2, NoTransactionType DEF DataInv, DataOK
<1>4. KeysAreHeld'
  BY <1>1, NoTransactionType DEF DataInv, DataOK, KeysAreHeld
<1>5. RowsAreHeld'
  BY <1>1, NoTransactionType DEF DataInv, DataOK, RowsAreHeld
<1>6. WritesAreCurrent' /\ ListedAreWritten'
  BY <1>1, NoTransactionType DEF DataInv, DataOK, WritesAreCurrent, ListedAreWritten,
      ListedWritten
<1>7. RowsAreOrdered' /\ CommittedOnce' /\ NewestObservationWins' /\ InactiveIsExplained'
  BY <1>2 DEF DataInv, RowsAreOrdered, CommittedOnce, NewestObservationWins,
              InactiveIsExplained
<1> QED BY <1>3, <1>4, <1>5, <1>6, <1>7 DEF DataInv

(* A transaction begins: its key is free, as its INSERT found out.         *)
LEMMA InsertRunData ==
  ASSUME DataInv, NEW c \in Controllers, InsertRun(c),
         work[c] \in Ids
  PROVE  DataInv'
<1>1. /\ tx'[c] = Inserted(work[c])
      /\ \A d \in Controllers \ {c} : tx'[d] = tx[d]
      /\ UNCHANGED <<reports, runs, rows, commits>>
  BY DEF DataInv, DataOK, InsertRun, given, process
<1>2. Ids' = Ids /\ Row' = Row /\ Transaction' = Transaction
  BY <1>1 DEF Ids, Row, Transaction
<1>3. /\ Inserted(work[c]).stage = "upsert" /\ Inserted(work[c]).coll = work[c]
      /\ Inserted(work[c]).todo = reports[work[c]].listed
      /\ \A m \in Machines : Inserted(work[c]).writes[m] = None
      /\ Inserted(work[c]) \in Transaction
  BY IdsAreNat DEF DataInv, DataOK, Inserted, NoTransaction, Transaction, Stages
<1>4. DataOK'
  BY <1>1, <1>2, <1>3 DEF DataInv, DataOK, InsertRun
<1>5. KeysAreHeld' /\ RowsAreHeld'
  BY <1>1, <1>3 DEF DataInv, KeysAreHeld, RowsAreHeld, InsertRun
<1>6. WritesAreCurrent' /\ ListedAreWritten'
  <2>1. \A d \in Controllers, m \in Machines : tx'[d].writes[m] # None =>
          d # c /\ tx[d].writes[m] # None
    BY <1>1, <1>3
  <2>2. WritesAreCurrent'
    BY <1>1, <2>1 DEF DataInv, WritesAreCurrent
  <2>3. ListedAreWritten'
    BY <1>1, <1>3, IdsAreNat DEF DataInv, DataOK, ListedAreWritten, ListedWritten
  <2> QED BY <2>2, <2>3
<1>7. RowsAreOrdered' /\ CommittedOnce' /\ NewestObservationWins' /\ InactiveIsExplained'
  BY <1>1, <1>2 DEF DataInv, RowsAreOrdered, CommittedOnce, NewestObservationWins,
                    InactiveIsExplained
<1> QED BY <1>4, <1>5, <1>6, <1>7 DEF DataInv

(* What a statement writes is a row.                                       *)
LEMMA WrittenRows ==
  ASSUME reports \in Histories, NEW k \in Ids, NEW row \in Row \cup {None}
  PROVE  /\ Upserted(row, k) \in Row
         /\ Remarked(row, k) \in Row \cup {None}
<1>1. row = None \/ row \in Row
  OBVIOUS
<1> QED BY <1>1, IdsAreNat, RowsAreRecords DEF Upserted, Remarked, Newer, Absent, Marked, Row

LEMMA UpsertData ==
  ASSUME DataInv, NEW c \in Controllers, upsertMachine(c)
  PROVE  DataInv'
<1> DEFINE k == tx[c].coll
<1>1. PICK m \in tx[c].todo :
        /\ Unlocked(c, m)
        /\ tx' = [tx EXCEPT ![c].todo = @ \ {m}, ![c].writes[m] =
             IF Newer(rows[m], tx[c].coll)
             THEN [observed |-> tx[c].coll, completed |-> tx[c].coll, active |-> TRUE]
             ELSE rows[m]]
  BY DEF upsertMachine
<1>2. /\ tx[c].stage = "upsert" /\ UNCHANGED <<reports, runs, rows, commits>>
      /\ tx[c] \in Transaction /\ m \in Machines /\ k \in Ids
      /\ m \in reports[k].listed
  BY <1>1, IdsAreNat DEF upsertMachine, given, DataInv, DataOK, Transaction, ListedAreWritten, ListedWritten
<1>3. /\ tx'[c].stage = "upsert" /\ tx'[c].coll = k
      /\ tx'[c].todo = tx[c].todo \ {m}
      /\ tx'[c].writes = [tx[c].writes EXCEPT ![m] = Upserted(rows[m], k)]
      /\ \A d \in Controllers \ {c} : tx'[d] = tx[d]
  BY <1>1, <1>2 DEF DataInv, DataOK, Transaction, Upserted
<1>4. Ids' = Ids /\ Row' = Row /\ Transaction' = Transaction
  BY <1>2 DEF Ids, Row, Transaction
<1>5. Upserted(rows[m], k) \in Row /\ Upserted(rows[m], k) # None
  BY <1>2, WrittenRows, RowsAreRecords DEF DataInv, DataOK
<1>6. DataOK'
  <2>1. tx' \in [Controllers -> Transaction]
    BY <1>1, <1>2, <1>5 DEF DataInv, DataOK, Transaction, Upserted
  <2> QED BY <2>1, <1>2, <1>4 DEF DataInv, DataOK
<1>7. KeysAreHeld'
  BY <1>2, <1>3 DEF DataInv, KeysAreHeld
<1>8. RowsAreHeld'
  BY <1>1, <1>2, <1>3 DEF DataInv, DataOK, Transaction, RowsAreHeld, Unlocked
<1>9. WritesAreCurrent'
  BY <1>2, <1>3 DEF DataInv, DataOK, Transaction, WritesAreCurrent
<1>10. ListedAreWritten'
  <2> SUFFICES ASSUME NEW d \in Controllers PROVE ListedWritten(d)'
    BY DEF ListedAreWritten
  <2>1. CASE d # c
    BY <2>1, <1>2, <1>3 DEF DataInv, ListedAreWritten, ListedWritten
  <2>2. CASE d = c
    <3>1. \A n \in reports[k].listed : n \in tx[c].todo \/ tx[c].writes[n] # None
      BY <1>2 DEF DataInv, ListedAreWritten, ListedWritten
    <3>2. \A n \in reports[k].listed : n \in tx'[c].todo \/ tx'[c].writes[n] # None
      BY <3>1, <1>2, <1>3, <1>5, IdsAreNat DEF DataInv, DataOK, Transaction
    <3> QED BY <3>2, <2>2, <1>2, <1>3 DEF DataInv, ListedAreWritten, ListedWritten
  <2> QED BY <2>1, <2>2
<1>11. RowsAreOrdered' /\ CommittedOnce' /\ NewestObservationWins' /\ InactiveIsExplained'
  BY <1>2, <1>4 DEF DataInv, RowsAreOrdered, CommittedOnce, NewestObservationWins,
                    InactiveIsExplained
<1> QED BY <1>6, <1>7, <1>8, <1>9, <1>10, <1>11 DEF DataInv
(* The marking looks for its rows; what it finds is none of those listed.  *)
LEMMA MarkData ==
  ASSUME DataInv, NEW c \in Controllers, markMissingMachinesInactive(c)
  PROVE  DataInv'
<1> DEFINE k == tx[c].coll
           found == {m \in Machines \ reports[k].listed : Absent(rows[m], k)}
<1>1. /\ tx[c].stage = "upsert" /\ tx[c].todo = {} /\ reports[k].complete
      /\ tx' = [tx EXCEPT ![c].stage = "mark", ![c].todo = found]
      /\ UNCHANGED <<reports, runs, rows, commits>>
      /\ tx[c] \in Transaction
  BY DEF markMissingMachinesInactive, given, DataInv, DataOK
<1>2. /\ tx'[c].stage = "mark" /\ tx'[c].coll = k
      /\ tx'[c].todo = found
      /\ tx'[c].writes = tx[c].writes
      /\ \A d \in Controllers \ {c} : tx'[d] = tx[d]
  BY <1>1 DEF DataInv, DataOK, Transaction
<1>3. /\ tx[c].stage = "upsert" /\ tx[c].todo = {} /\ reports[k].complete
      /\ UNCHANGED <<reports, runs, rows>>
  BY <1>1
<1>4. Ids' = Ids /\ Row' = Row /\ Transaction' = Transaction
  BY <1>1 DEF Ids, Row, Transaction
<1>5. found \subseteq Machines /\ found \cap reports[k].listed = {}
  OBVIOUS
<1> HIDE DEF found
<1>6. DataOK'
  <2>1. tx' \in [Controllers -> Transaction]
    BY <1>1, <1>5 DEF DataInv, DataOK, Transaction, Stages
  <2> QED BY <2>1, <1>1, <1>4 DEF DataInv, DataOK
<1>7. KeysAreHeld' /\ RowsAreHeld'
  <2>1. KeysAreHeld'
    BY <1>3, <1>2 DEF DataInv, KeysAreHeld
  <2>2. RowsAreHeld'
    BY <1>2 DEF DataInv, RowsAreHeld
  <2> QED BY <2>1, <2>2
<1>8. WritesAreCurrent'
  BY <1>3, <1>2 DEF DataInv, WritesAreCurrent
<1>9. ListedAreWritten'
  <2> SUFFICES ASSUME NEW d \in Controllers PROVE ListedWritten(d)'
    BY DEF ListedAreWritten
  <2>1. CASE d # c
    BY <2>1, <1>3, <1>2 DEF DataInv, ListedAreWritten, ListedWritten
  <2>2. CASE d = c
    BY <2>2, <1>3, <1>2, <1>5 DEF DataInv, ListedAreWritten, ListedWritten
  <2> QED BY <2>1, <2>2
<1>10. RowsAreOrdered' /\ CommittedOnce' /\ NewestObservationWins' /\ InactiveIsExplained'
  BY <1>1, <1>4 DEF DataInv, RowsAreOrdered, CommittedOnce, NewestObservationWins,
                    InactiveIsExplained
<1> QED BY <1>6, <1>7, <1>8, <1>9, <1>10 DEF DataInv

LEMMA MarkRowData ==
  ASSUME DataInv, NEW c \in Controllers, MarkRow(c)
  PROVE  DataInv'
<1> DEFINE k == tx[c].coll
<1>1. PICK m \in tx[c].todo :
        /\ Unlocked(c, m)
        /\ tx' = [tx EXCEPT ![c].todo = @ \ {m}, ![c].writes[m] =
             IF Absent(rows[m], tx[c].coll) THEN Marked(rows[m], tx[c].coll) ELSE rows[m]]
  BY DEF MarkRow
<1>2. /\ tx[c].stage = "mark" /\ UNCHANGED <<reports, runs, rows, commits>>
      /\ tx[c] \in Transaction /\ m \in Machines /\ k \in Ids
      /\ m \notin reports[k].listed /\ reports[k].complete
  BY <1>1 DEF MarkRow, given, DataInv, DataOK, Transaction, ListedAreWritten, ListedWritten
<1>3. /\ tx'[c].stage = "mark" /\ tx'[c].coll = k
      /\ tx'[c].todo = tx[c].todo \ {m}
      /\ tx'[c].writes = [tx[c].writes EXCEPT ![m] = Remarked(rows[m], k)]
      /\ \A d \in Controllers \ {c} : tx'[d] = tx[d]
  BY <1>1, <1>2 DEF DataInv, DataOK, Transaction, Remarked
<1>4. Ids' = Ids /\ Row' = Row /\ Transaction' = Transaction
  BY <1>2 DEF Ids, Row, Transaction
<1>5. Remarked(rows[m], k) \in Row \cup {None}
  BY <1>2, WrittenRows DEF DataInv, DataOK
<1>6. DataOK'
  <2>1. tx' \in [Controllers -> Transaction]
    BY <1>1, <1>2, <1>5 DEF DataInv, DataOK, Transaction, Remarked
  <2> QED BY <2>1, <1>2, <1>4 DEF DataInv, DataOK
<1>7. KeysAreHeld'
  BY <1>2, <1>3 DEF DataInv, KeysAreHeld
<1>8. RowsAreHeld'
  BY <1>1, <1>2, <1>3 DEF DataInv, DataOK, Transaction, RowsAreHeld, Unlocked
<1>9. WritesAreCurrent'
  BY <1>2, <1>3 DEF DataInv, DataOK, Transaction, WritesAreCurrent
<1>10. ListedAreWritten'
  <2>1. \A n \in reports[k].listed : tx'[c].writes[n] # None
    BY <1>2, <1>3, IdsAreNat DEF DataInv, DataOK, Transaction, ListedAreWritten, ListedWritten
  <2> SUFFICES ASSUME NEW d \in Controllers PROVE ListedWritten(d)'
    BY DEF ListedAreWritten
  <2>2. CASE d # c
    BY <2>2, <1>2, <1>3 DEF DataInv, ListedAreWritten, ListedWritten
  <2>3. CASE d = c
    BY <2>1, <2>3, <1>2, <1>3 DEF DataInv, ListedAreWritten, ListedWritten
  <2> QED BY <2>2, <2>3
<1>11. RowsAreOrdered' /\ CommittedOnce' /\ NewestObservationWins' /\ InactiveIsExplained'
  BY <1>2, <1>4 DEF DataInv, RowsAreOrdered, CommittedOnce, NewestObservationWins,
                    InactiveIsExplained
<1> QED BY <1>6, <1>7, <1>8, <1>9, <1>10, <1>11 DEF DataInv

-----------------------------------------------------------------------------
(* A commit. The rows it installs are those its statements would write     *)
(* now, so the order of the statements of other transactions is immaterial.*)
LEMMA InstallData ==
  ASSUME DataInv, NEW c \in Controllers, Install(c),
         tx' = [tx EXCEPT ![c] = NoTransaction], UNCHANGED reports
  PROVE  DataInv'
<1> DEFINE k == tx[c].coll
<1>1. /\ tx'[c] = NoTransaction /\ \A d \in Controllers \ {c} : tx'[d] = tx[d]
      /\ tx[c] \in Transaction /\ k \in Ids
      /\ tx[c].stage # "none" /\ tx[c].todo = {}
      /\ k \notin runs /\ runs' = runs \cup {k}
      /\ reports[k].listed \subseteq Machines
  BY IdsAreNat DEF DataInv, DataOK, KeysAreHeld, Install, Finished, Transaction
<1>2. Ids' = Ids /\ Row' = Row /\ Transaction' = Transaction
  BY DEF Ids, Row, Transaction
<1>3. \A m \in Machines :
        rows'[m] = IF tx[c].writes[m] = None THEN rows[m]
                   ELSE IF m \in reports[k].listed THEN Upserted(rows[m], k)
                   ELSE Remarked(rows[m], k)
  BY <1>1 DEF Install, DataInv, WritesAreCurrent
<1>4. \A m \in reports[k].listed : tx[c].writes[m] # None
  BY <1>1 DEF DataInv, ListedAreWritten, ListedWritten
<1>5. \A m \in Machines \ reports[k].listed : tx[c].writes[m] # None => reports[k].complete
  BY <1>1 DEF DataInv, WritesAreCurrent
<1>6. DataOK'
  <2>1. rows' \in [Machines -> Row \cup {None}]
    BY <1>1 DEF Install, DataInv, DataOK, Transaction
  <2> QED BY <2>1, <1>1, <1>2, NoTransactionType DEF Install, DataInv, DataOK
<1>7. KeysAreHeld' /\ RowsAreHeld'
  BY <1>1, NoTransactionType DEF DataInv, DataOK, KeysAreHeld, RowsAreHeld
<1>8. WritesAreCurrent'
  BY <1>1, <1>3, NoTransactionType DEF DataInv, DataOK, WritesAreCurrent, RowsAreHeld
<1>9. ListedAreWritten'
  BY <1>1, NoTransactionType DEF DataInv, DataOK, ListedAreWritten, ListedWritten
<1>10. CommittedOnce'
  BY <1>1, <1>2 DEF Install, DataInv, DataOK, CommittedOnce
<1> DEFINE seen(m) == {j \in runs : m \in reports[j].listed}
<1>11. ASSUME NEW m \in Machines
       PROVE  /\ rows'[m] # None => rows'[m].observed <= rows'[m].completed
              /\ IF rows'[m] = None THEN seen(m)' = {}
                 ELSE rows'[m].observed \in seen(m)' /\ \A j \in seen(m)' : j <= rows'[m].observed
              /\ rows'[m] # None /\ ~rows'[m].active =>
                   \E j \in runs' : /\ j > rows'[m].observed
                                    /\ reports[j].complete /\ m \notin reports[j].listed
  <2>1. /\ rows[m] # None => /\ rows[m] \in Row /\ rows[m].observed \in Nat
                             /\ rows[m].completed \in Nat
                             /\ rows[m].observed <= rows[m].completed
                             /\ rows[m].observed \in seen(m)
                             /\ \A j \in seen(m) : j <= rows[m].observed
        /\ rows[m] = None => seen(m) = {}
        /\ rows[m] # None /\ ~rows[m].active =>
             \E j \in runs : /\ j > rows[m].observed
                             /\ reports[j].complete /\ m \notin reports[j].listed
        /\ k \in Nat
    BY <1>1, IdsAreNat
       DEF DataInv, DataOK, Row, RowsAreOrdered, NewestObservationWins, InactiveIsExplained
  <2>2. CASE m \in reports[k].listed
    <3>1. seen(m)' = seen(m) \cup {k}
      BY <2>2, <1>1
    <3>2. rows'[m] = Upserted(rows[m], k) /\ Upserted(rows[m], k) # None
      BY <2>2, <1>1, <1>3, <1>4, WrittenRows, RowsAreRecords DEF DataInv, DataOK
    <3>3. CASE Newer(rows[m], k)
      <4>1. rows'[m].observed = k /\ rows'[m].completed = k /\ rows'[m].active
        BY <3>2, <3>3 DEF Upserted
      <4>2. \A j \in seen(m) : j <= k
        <5>1. seen(m) \subseteq Nat
          BY IdsAreNat DEF DataInv, DataOK
        <5>2. seen(m) = {} \/ rows[m].observed <= k
          BY <3>3, <2>1 DEF Newer
        <5> QED BY <5>1, <5>2, <2>1
      <4> QED BY <4>1, <4>2, <3>1, <3>2, <2>1
    <3>4. CASE ~Newer(rows[m], k)
      BY <3>1, <3>2, <3>4, <2>1, <1>1 DEF Newer, Upserted
    <3> QED BY <3>3, <3>4
  <2>3. CASE m \notin reports[k].listed
    <3>1. seen(m)' = seen(m)
      BY <2>3, <1>1
    <3>2. CASE rows'[m] = rows[m]
      BY <3>1, <3>2, <2>1, <1>1
    <3>3. CASE Absent(rows[m], k) /\ rows'[m] = Marked(rows[m], k) /\ reports[k].complete
      <4>1. /\ rows'[m].observed = rows[m].observed /\ rows'[m].completed = k
        BY <3>3, <2>1 DEF Marked, Absent, Row
      <4>2. rows[m] # None /\ k > rows[m].observed
        BY <3>3, <2>1 DEF Absent
      <4>3. rows'[m] # None
        <5>1. Marked(rows[m], k) \in Row
          BY <4>2, <2>1, <1>1 DEF Marked, Row
        <5> QED BY <5>1, <3>3, RowsAreRecords DEF DataInv, DataOK
      <4> QED BY <4>1, <4>2, <4>3, <3>1, <3>3, <2>1, <2>3, <1>1
    <3> QED BY <3>2, <3>3, <2>3, <1>3, <1>5 DEF Remarked
  <2> QED BY <2>2, <2>3
<1>12. RowsAreOrdered' /\ NewestObservationWins' /\ InactiveIsExplained'
  BY <1>11 DEF RowsAreOrdered, NewestObservationWins, InactiveIsExplained
<1> QED BY <1>6, <1>7, <1>8, <1>9, <1>10, <1>12 DEF DataInv
-----------------------------------------------------------------------------
(* What a process and its connections have to do with each other.          *)
ProcOK ==
  /\ current \in Ids
  /\ DOMAIN mtx = Controllers
  /\ proc \in [Controllers -> Alive \cup {"new", "crashed", "gone"}]
  /\ work \in [Controllers -> Ids \cup {None}]
  /\ status \in [Controllers -> Ids \cup {None}]
  /\ request \in [Controllers -> {"none", "open", "query"}]
  /\ failed \in [Controllers -> BOOLEAN]

Held(c) ==
  /\ tx[c].stage # "none" =>
       IF work[c] = None THEN proc[c] = "crashed" ELSE work[c] = tx[c].coll
  /\ tx[c].stage = "none" => tx[c] = NoTransaction
  /\ mtx[c] # None => proc[c] \in {"migrating", "crashed"}
  /\ proc[c] \in {"new", "crashed", "gone"} => work[c] = None
  /\ proc[c] = "gone" => tx[c].stage = "none"
  /\ proc[c] \in {"joining", "closing"} /\ ~failed[c] => request[c] = "none"
  /\ proc[c] = "closing" /\ ~failed[c] => work[c] = None
  /\ status[c] # None => status[c] \in runs

ProcInv == ProcOK /\ \A c \in Controllers : Held(c)

IInv == DataInv /\ ProcInv

(* Only c moves, and no run is lost.                                       *)
OnlyBy(c) ==
  /\ \A d \in Controllers \ {c} :
       /\ tx'[d] = tx[d] /\ mtx'[d] = mtx[d] /\ proc'[d] = proc[d] /\ work'[d] = work[d]
       /\ status'[d] = status[d] /\ request'[d] = request[d] /\ failed'[d] = failed[d]
  /\ runs \subseteq runs'
  /\ UNCHANGED <<reports, current>>

LEMMA OthersHeld ==
  ASSUME ProcInv, NEW c \in Controllers, OnlyBy(c), ProcOK', Held(c)'
  PROVE  ProcInv'
BY DEF ProcInv, OnlyBy, Held

LEMMA StartSteps ==
  ASSUME IInv, NEW c \in Controllers,
         \/ Open(c) \/ MigrateLock(c) \/ MigrateFile(c) \/ MigrateCommit(c) \/ MigrateFail(c)
  PROVE  IInv'
<1>1. UNCHANGED <<reports, current, runs, rows, tx, commits>>
  BY DEF Open, MigrateLock, MigrateFile, MigrateCommit, MigrateFail, given, server
<1>2. OnlyBy(c) /\ ProcOK' /\ Held(c)'
  <2>1. CASE Open(c)
    BY <2>1 DEF IInv, ProcInv, OnlyBy, ProcOK, Held, Open, Goto, Alive, given, server, Ids
  <2>2. CASE MigrateLock(c)
    BY <2>2 DEF IInv, ProcInv, OnlyBy, ProcOK, Held, MigrateLock, Goto, Alive, given, Ids
  <2>3. CASE MigrateFile(c)
    BY <2>3 DEF IInv, ProcInv, OnlyBy, ProcOK, Held, MigrateFile, given, process, Ids
  <2>4. CASE MigrateCommit(c)
    <3>1. /\ UNCHANGED <<reports, current, runs, tx, work, status, request>>
          /\ mtx' = [mtx EXCEPT ![c] = None] /\ DOMAIN mtx = Controllers
          /\ \/ proc' = [proc EXCEPT ![c] = "running"] /\ failed' = failed
             \/ proc' = [proc EXCEPT ![c] = "closing"] /\ failed' = [failed EXCEPT ![c] = TRUE]
      BY <2>4 DEF IInv, ProcInv, ProcOK, MigrateCommit, Goto, given
    <3>2. proc[c] = "migrating" /\ ProcOK /\ Held(c)
      BY <2>4 DEF IInv, ProcInv, MigrateCommit
    <3>3. OnlyBy(c)
      BY <3>1, <3>2 DEF ProcOK, OnlyBy
    <3>4. ProcOK'
      BY <3>1, <3>2 DEF ProcOK, Alive, Ids
    <3>5. /\ mtx'[c] = None /\ proc'[c] \notin {"new", "crashed", "gone", "migrating", "joining"}
          /\ proc'[c] = "closing" => failed'[c]
      BY <3>1, <3>2 DEF ProcOK
    <3>6. Held(c)'
      BY <3>1, <3>2, <3>5 DEF Held
    <3> QED BY <3>3, <3>4, <3>6
  <2>5. CASE MigrateFail(c)
    BY <2>5 DEF IInv, ProcInv, OnlyBy, ProcOK, Held, MigrateFail, Goto, Alive, given, Ids
  <2> QED BY <2>1, <2>2, <2>3, <2>4, <2>5
<1> QED BY <1>1, <1>2, OthersHeld, DataUnchanged DEF IInv
LEMMA RequestSteps ==
  ASSUME IInv, NEW c \in Controllers, Accept(c) \/ Query(c) \/ QueryEnds(c) \/ Answer(c)
  PROVE  IInv'
<1>1. UNCHANGED <<reports, current, runs, rows, tx, commits>>
  BY DEF Accept, Query, QueryEnds, Answer, given, server
<1>2. OnlyBy(c) /\ ProcOK' /\ Held(c)'
  <2>1. CASE Accept(c)
    BY <2>1 DEF IInv, ProcInv, OnlyBy, ProcOK, Held, Accept, given, server, Ids
  <2>2. CASE Query(c)
    BY <2>2 DEF IInv, ProcInv, OnlyBy, ProcOK, Held, Query, given, server, Ids
  <2>3. CASE QueryEnds(c)
    BY <2>3 DEF IInv, ProcInv, OnlyBy, ProcOK, Held, QueryEnds, given, server, Ids
  <2>4. CASE Answer(c)
    BY <2>4 DEF IInv, ProcInv, OnlyBy, ProcOK, Held, Answer, given, server, Ids
  <2> QED BY <2>1, <2>2, <2>3, <2>4
<1> QED BY <1>1, <1>2, OthersHeld, DataUnchanged DEF IInv

LEMMA StopSteps ==
  ASSUME IInv, NEW c \in Controllers,
         Stop(c) \/ Shutdown(c) \/ Join(c) \/ Exit(c) \/ Crash(c)
  PROVE  IInv'
<1>1. UNCHANGED <<reports, current, runs, rows, tx, commits>>
  BY DEF Stop, Shutdown, Join, Exit, Crash, given, server
<1>2. OnlyBy(c) /\ ProcOK' /\ Held(c)'
  <2>1. CASE Stop(c)
    BY <2>1 DEF IInv, ProcInv, OnlyBy, ProcOK, Held, Stop, Goto, Alive, given, server, Ids
  <2>2. CASE Shutdown(c)
    BY <2>2 DEF IInv, ProcInv, OnlyBy, ProcOK, Held, Shutdown, Goto, Alive, given, server, Ids
  <2>3. CASE Join(c)
    BY <2>3 DEF IInv, ProcInv, OnlyBy, ProcOK, Held, Join, Goto, Alive, given, server, Ids
  <2>4. CASE Exit(c)
    BY <2>4 DEF IInv, ProcInv, OnlyBy, ProcOK, Held, Exit, Gone, Goto, Alive, given, server, Ids
  <2>5. CASE Crash(c)
    BY <2>5 DEF IInv, ProcInv, OnlyBy, ProcOK, Held, Crash, Gone, Goto, Alive, given, server, Ids
  <2> QED BY <2>1, <2>2, <2>3, <2>4, <2>5
<1> QED BY <1>1, <1>2, OthersHeld, DataUnchanged DEF IInv

(* The statements of an ingestion.                                         *)
LEMMA StatementSteps ==
  ASSUME IInv, NEW c \in Controllers,
         \/ InsertRun(c) \/ upsertMachine(c) \/ markMissingMachinesInactive(c) \/ MarkRow(c)
  PROVE  IInv'
<1>1. /\ work[c] # None /\ work[c] \in Ids /\ proc[c] \notin {"crashed", "gone"}
      /\ tx[c].stage # "none" => work[c] = tx[c].coll
  BY DEF IInv, ProcInv, ProcOK, Held, InsertRun, Begins, upsertMachine,
         markMissingMachinesInactive, MarkRow
<1>2. DataInv'
  BY <1>1, InsertRunData, UpsertData, MarkData, MarkRowData DEF IInv
<1>3. /\ tx'[c].stage # "none" /\ tx'[c].coll = work[c]
      /\ \A d \in Controllers \ {c} : tx'[d] = tx[d]
  <2>1. CASE InsertRun(c)
    BY <2>1 DEF IInv, DataInv, DataOK, InsertRun, Inserted, NoTransaction
  <2>2. CASE upsertMachine(c)
    <3>1. DOMAIN tx = Controllers /\ tx[c] \in Transaction
      BY DEF IInv, DataInv, DataOK
    <3>2. PICK m, w :
            tx' = [tx EXCEPT ![c].todo = tx[c].todo \ {m}, ![c].writes[m] = w]
      BY <2>2 DEF upsertMachine
    <3>3. DOMAIN tx[c] = {"stage", "todo", "coll", "writes"}
      BY <3>1 DEF Transaction
    <3>4. /\ tx'[c].stage = tx[c].stage /\ tx'[c].coll = tx[c].coll
          /\ \A d \in Controllers \ {c} : tx'[d] = tx[d]
      BY <3>1, <3>2, <3>3
    <3>5. tx[c].stage # "none"
      BY <2>2 DEF upsertMachine
    <3> QED BY <1>1, <3>4, <3>5
  <2>3. CASE markMissingMachinesInactive(c)
    BY <2>3, <1>1 DEF IInv, DataInv, DataOK, Transaction, markMissingMachinesInactive
  <2>4. CASE MarkRow(c)
    BY <2>4, <1>1 DEF IInv, DataInv, DataOK, Transaction, MarkRow
  <2> QED BY <2>1, <2>2, <2>3, <2>4
<1>4. UNCHANGED <<reports, current, runs, mtx, proc, work, status, request, failed>>
  BY DEF InsertRun, upsertMachine, markMissingMachinesInactive, MarkRow, given, process
<1>5. OnlyBy(c) /\ ProcOK' /\ Held(c)'
  BY <1>1, <1>3, <1>4 DEF IInv, ProcInv, OnlyBy, ProcOK, Held, Ids
<1> QED BY <1>2, <1>5, OthersHeld DEF IInv

(* The beginning of an attempt, and its ends.                              *)
LEMMA AttemptSteps ==
  ASSUME IInv, NEW c \in Controllers,
         FetchTopology(c) \/ Commit(c) \/ Duplicate(c) \/ AttemptFail(c) \/ BackendEnds(c)
  PROVE  IInv'
<1>1. CASE FetchTopology(c)
  <2>1. UNCHANGED <<reports, current, runs, rows, tx, commits>>
    BY <1>1 DEF FetchTopology, given, server
  <2>2. OnlyBy(c) /\ ProcOK' /\ Held(c)'
    BY <1>1 DEF IInv, ProcInv, OnlyBy, ProcOK, Held, FetchTopology, given, server, Ids
  <2> QED BY <2>1, <2>2, OthersHeld, DataUnchanged DEF IInv
<1>2. CASE Commit(c)
  <2>1. tx' = [tx EXCEPT ![c] = NoTransaction] /\ UNCHANGED reports /\ Install(c)
    BY <1>2 DEF Commit, EndAttempt, given
  <2>2. DataInv'
    BY <2>1, InstallData DEF IInv
  <2>3. tx[c].stage # "none" /\ work[c] = tx[c].coll /\ work[c] \in Ids
    BY <1>2, <2>1 DEF Commit, Install, Finished, IInv, ProcInv, ProcOK, Held
  <2>4. work[c] \in runs' /\ runs \subseteq runs'
    BY <2>1, <2>3 DEF Install
  <2>5. tx'[c] = NoTransaction /\ \A d \in Controllers \ {c} : tx'[d] = tx[d]
    BY <2>1 DEF IInv, DataInv, DataOK
  <2>6. OnlyBy(c) /\ ProcOK' /\ Held(c)'
    BY <1>2, <2>1, <2>3, <2>4, <2>5, NoTransactionType
       DEF Commit, EndAttempt, Succeed, recordFailure, given, IInv, ProcInv, OnlyBy, ProcOK,
           Held, Ids, DataInv, DataOK
  <2> QED BY <2>2, <2>6, OthersHeld DEF IInv
<1>3. CASE Duplicate(c) \/ AttemptFail(c)
  <2>1. /\ tx' = [tx EXCEPT ![c] = NoTransaction]
        /\ UNCHANGED <<reports, current, runs, rows, commits>>
    BY <1>3 DEF Duplicate, AttemptFail, EndAttempt, given
  <2>2. DataInv'
    BY <2>1, DataDiscarded DEF IInv
  <2>3. tx'[c] = NoTransaction /\ \A d \in Controllers \ {c} : tx'[d] = tx[d]
    BY <2>1 DEF IInv, DataInv, DataOK
  <2>4. OnlyBy(c) /\ ProcOK' /\ Held(c)'
    BY <1>3, <2>1, <2>3, NoTransactionType
       DEF Duplicate, AttemptFail, Begins, EndAttempt, Succeed, recordFailure, IInv, ProcInv,
           OnlyBy, ProcOK, Held, Ids, DataInv, DataOK
  <2> QED BY <2>2, <2>4, OthersHeld DEF IInv
<1>4. CASE BackendEnds(c)
  <2>1. tx' = [tx EXCEPT ![c] = NoTransaction] /\ UNCHANGED <<reports, current>>
    BY <1>4 DEF BackendEnds, given
  <2>2. DataInv' /\ runs \subseteq runs'
    BY <1>4, <2>1, InstallData, DataDiscarded DEF BackendEnds, IInv, Install
  <2>3. tx'[c] = NoTransaction /\ \A d \in Controllers \ {c} : tx'[d] = tx[d]
    BY <2>1 DEF IInv, DataInv, DataOK
  <2>4. OnlyBy(c) /\ ProcOK' /\ Held(c)'
    BY <1>4, <2>1, <2>2, <2>3, NoTransactionType
       DEF BackendEnds, Goto, Alive, IInv, ProcInv, OnlyBy, ProcOK, Held, Ids, DataInv, DataOK
  <2> QED BY <2>2, <2>4, OthersHeld DEF IInv
<1> QED BY <1>1, <1>2, <1>3, <1>4

(* An attempt ends before its transaction.                                 *)
LEMMA LingeringStep ==
  ASSUME IInv, NEW c \in Controllers, NEW a \in Controllers, AttemptLingers(c, a)
  PROVE  IInv'
<1>1. /\ work[c] # None /\ tx[c].stage # "none" /\ proc[a] = "new"
      /\ tx' = [tx EXCEPT ![a] = tx[c], ![c] = NoTransaction]
      /\ proc' = [proc EXCEPT ![a] = "crashed"] /\ work' = [work EXCEPT ![c] = None]
      /\ UNCHANGED <<reports, current, runs, rows, commits, mtx, status, request, failed>>
  BY DEF AttemptLingers, UsesRuns, Goto, recordFailure, given
<1>2. \A d \in Controllers : Held(d)
  BY DEF IInv, ProcInv
<1>3. a # c /\ tx[a] = NoTransaction /\ work[a] = None /\ mtx[a] = None
  BY <1>1, <1>2 DEF Held
<1>4. DataInv'
  BY <1>1, <1>3, DataMoved DEF IInv
<1>5. ProcOK'
  BY <1>1 DEF IInv, ProcInv, ProcOK, Ids
<1>6. /\ tx'[c] = NoTransaction /\ work'[c] = None /\ proc'[c] = proc[c]
      /\ tx'[a] = tx[c] /\ work'[a] = None /\ proc'[a] = "crashed"
      /\ \A d \in Controllers \ {a, c} :
           tx'[d] = tx[d] /\ work'[d] = work[d] /\ proc'[d] = proc[d]
  BY <1>1, <1>3 DEF IInv, ProcInv, ProcOK, DataInv, DataOK
<1>7. ASSUME NEW d \in Controllers PROVE Held(d)'
  <2>1. CASE d = c
    BY <2>1, <1>1, <1>2, <1>6, NoTransactionType DEF Held, IInv, DataInv, DataOK
  <2>2. CASE d = a
    <3>1. /\ tx'[a].stage # "none" /\ work'[a] = None /\ proc'[a] = "crashed"
          /\ mtx'[a] = None /\ (status[a] # None => status[a] \in runs)
          /\ status' = status /\ runs' = runs
      BY <1>1, <1>2, <1>3, <1>6 DEF Held
    <3> QED BY <2>2, <3>1 DEF Held
  <2>3. CASE d \notin {a, c}
    <3>1. /\ tx'[d] = tx[d] /\ work'[d] = work[d] /\ proc'[d] = proc[d]
          /\ UNCHANGED <<runs, mtx, status, request, failed>>
      BY <2>3, <1>1, <1>6
    <3> QED BY <3>1, <1>2 DEF Held
  <2> QED BY <2>1, <2>2, <2>3
<1> QED BY <1>4, <1>5, <1>7 DEF IInv, ProcInv

LEMMA NewCollectionStep ==
  ASSUME IInv, NewCollection
  PROVE  IInv'
<1>1. UNCHANGED <<reports, runs, rows, tx, commits, mtx, process>>
  BY DEF NewCollection, server
<1>2. current' \in Ids
  <2>1. reports \in Seq([listed : SUBSET Machines, complete : BOOLEAN])
    BY HistoriesAssumption DEF IInv, DataInv, DataOK
  <2> QED BY <2>1 DEF NewCollection, IInv, ProcInv, ProcOK, Ids
<1>3. ProcInv'
  BY <1>1, <1>2 DEF IInv, ProcInv, ProcOK, Held, Ids, process
<1> QED BY <1>1, <1>3, DataUnchanged DEF IInv

-----------------------------------------------------------------------------
(* The invariant is inductive.                                             *)
LEMMA InitInvariant == Init => IInv
<1> SUFFICES ASSUME Init PROVE IInv
  OBVIOUS
<1>1. ProcInv
  BY IdsAreNat DEF Init, ProcInv, ProcOK, Held, NoTransaction
<1> QED BY <1>1, InitData DEF IInv

LEMMA StepInvariant == IInv /\ [Next]_vars => IInv'
<1> SUFFICES ASSUME IInv, [Next]_vars PROVE IInv'
  OBVIOUS
<1>1. CASE NewCollection
  BY <1>1, NewCollectionStep
<1>2. ASSUME NEW c \in Controllers,
             \/ Open(c) \/ MigrateLock(c) \/ MigrateFile(c) \/ MigrateCommit(c)
             \/ MigrateFail(c)
      PROVE  IInv'
  BY <1>2, StartSteps
<1>3. ASSUME NEW c \in Controllers,
             \/ InsertRun(c) \/ upsertMachine(c) \/ markMissingMachinesInactive(c)
             \/ MarkRow(c)
      PROVE  IInv'
  BY <1>3, StatementSteps
<1>4. ASSUME NEW c \in Controllers,
             \/ FetchTopology(c) \/ Commit(c) \/ Duplicate(c) \/ AttemptFail(c)
             \/ BackendEnds(c)
      PROVE  IInv'
  BY <1>4, AttemptSteps
<1>5. ASSUME NEW c \in Controllers, Accept(c) \/ Query(c) \/ QueryEnds(c) \/ Answer(c)
      PROVE  IInv'
  BY <1>5, RequestSteps
<1>6. ASSUME NEW c \in Controllers,
             Stop(c) \/ Shutdown(c) \/ Join(c) \/ Exit(c) \/ Crash(c)
      PROVE  IInv'
  BY <1>6, StopSteps
<1>7. ASSUME NEW c \in Controllers, NEW a \in Controllers, AttemptLingers(c, a)
      PROVE  IInv'
  BY <1>7, LingeringStep
<1>8. CASE UNCHANGED vars
  <2>1. UNCHANGED <<reports, current, runs, rows, tx, commits, mtx, process>>
    BY <1>8 DEF vars, given, server
  <2>2. ProcInv'
    BY <2>1 DEF IInv, ProcInv, ProcOK, Held, Ids, process
  <2> QED BY <2>1, <2>2, DataUnchanged DEF IInv
<1> QED BY <1>1, <1>2, <1>3, <1>4, <1>5, <1>6, <1>7, <1>8 DEF Next

(* The invariant of controllers that share a database holds in every       *)
(* reachable state, however their statements, crashes and commits          *)
(* interleave (ingest/store.go, main.go).                                  *)
THEOREM Invariance == Spec => []IInv
BY InitInvariant, StepInvariant, PTL DEF Spec

(* A collection is committed exactly once if its run is there: the primary *)
(* key of telemetry_collection_runs is enough, without any other lock      *)
(* between controllers.                                                    *)
THEOREM CommitsHappenOnce == Spec => []CommittedOnce
<1>1. IInv => CommittedOnce BY DEF IInv, DataInv
<1> QED BY <1>1, Invariance, PTL

(* The WHERE of the machine upsert and the row locks make the newest       *)
(* committed observation win, in whatever order the transactions commit.   *)
THEOREM NewestWins == Spec => []NewestObservationWins
<1>1. IInv => NewestObservationWins BY DEF IInv, DataInv
<1> QED BY <1>1, Invariance, PTL

(* No interleaving marks a machine inactive that no newer complete         *)
(* collection lacks (markMissingMachinesInactive).                         *)
THEOREM InactiveExplained == Spec => []InactiveIsExplained
<1>1. IInv => InactiveIsExplained BY DEF IInv, DataInv
<1> QED BY <1>1, Invariance, PTL

(* What a worker reports as ingested is committed (poller/worker.go).      *)
THEOREM HonestStatus == Spec => []StatusIsHonest
<1>1. IInv => StatusIsHonest BY DEF IInv, ProcInv, Held, StatusIsHonest
<1> QED BY <1>1, Invariance, PTL

(* run() closes the pool under a request or under an attempt of the worker *)
(* only if it returns an error (main.go).                                  *)
THEOREM CleanExit == Spec => []ExitIsClean
<1>1. IInv => ExitIsClean BY DEF IInv, ProcInv, Held, ExitIsClean
<1> QED BY <1>1, Invariance, PTL

-----------------------------------------------------------------------------
(* Migrations. The ledger is an initial part of the files there are, in    *)
(* their order, each with the contents that some build has.                *)
LedgerOK ==
  /\ embedded \in Builds
  /\ ledger \in Seq(Nat \X STRING)
  /\ \A i \in DOMAIN ledger :
       \E d \in Controllers : i \in DOMAIN embedded[d] /\ ledger[i] = embedded[d][i]

(* The advisory lock: an open migration is the only one, and has executed  *)
(* the files of its build that follow the ledger.                          *)
Migrating(c) ==
  mtx[c] # None =>
    /\ mtx[c] \in Seq(Nat)
    /\ \A j \in DOMAIN mtx[c] :
         mtx[c][j] = Len(ledger) + j /\ mtx[c][j] \in DOMAIN embedded[c]
    /\ \A d \in Controllers \ {c} : mtx[d] = None

(* Past the migration, or with work to do.                                 *)
Busy(c) ==
  proc[c] \in {"running", "stopping", "joining"} \/ work[c] # None

Applied(c) == {embedded[c][i] : i \in DOMAIN embedded[c]} \subseteq Recorded

Migrated(c) ==
  /\ proc[c] = "migrating" => mtx[c] # None
  /\ Busy(c) => Applied(c)

MigrationInv ==
  LedgerOK /\ \A c \in Controllers : Migrating(c) /\ Migrated(c)

LEMMA BuildFiles ==
  ASSUME LedgerOK, NEW c \in Controllers
  PROVE  /\ embedded[c] \in Seq(Nat \X STRING)
         /\ Len(embedded[c]) \in Nat
         /\ DOMAIN embedded[c] = 1 .. Len(embedded[c])
         /\ \A i \in DOMAIN embedded[c] :
              embedded[c][i] \in Nat \X STRING /\ embedded[c][i][1] \in Nat
         /\ \A i, j \in DOMAIN embedded[c] : i < j => embedded[c][i][1] < embedded[c][j][1]
<1>1. /\ embedded[c] \in Seq(Nat \X STRING)
      /\ \A i, j \in DOMAIN embedded[c] : i < j => embedded[c][i][1] < embedded[c][j][1]
  BY BuildsAssumption DEF LedgerOK
<1>2. \A i \in DOMAIN embedded[c] : embedded[c][i] \in Nat \X STRING
  BY <1>1, ElementOfSeq
<1> QED BY <1>1, <1>2

(* The file at a place of the ledger is the one at that place of a build.  *)
LEMMA LedgerFiles ==
  ASSUME LedgerOK
  PROVE  /\ Len(ledger) \in Nat /\ DOMAIN ledger = 1 .. Len(ledger)
         /\ \A i \in DOMAIN ledger : ledger[i] \in Nat \X STRING
         /\ \A c \in Controllers :
              \A i \in DOMAIN ledger \cap DOMAIN embedded[c] : ledger[i][1] = embedded[c][i][1]
         /\ \A i, j \in DOMAIN ledger : i < j => ledger[i][1] < ledger[j][1]
<1>1. Len(ledger) \in Nat /\ DOMAIN ledger = 1 .. Len(ledger)
  BY DEF LedgerOK
<1>2. \A i \in DOMAIN ledger : ledger[i] \in Nat \X STRING
  BY <1>1, ElementOfSeq DEF LedgerOK
<1>3. \A c \in Controllers :
        \A i \in DOMAIN ledger \cap DOMAIN embedded[c] : ledger[i][1] = embedded[c][i][1]
  BY BuildsAssumption DEF LedgerOK
<1>4. ASSUME NEW i \in DOMAIN ledger, NEW j \in DOMAIN ledger, i < j
      PROVE  ledger[i][1] < ledger[j][1]
  <2>1. PICK d \in Controllers : j \in DOMAIN embedded[d] /\ ledger[j] = embedded[d][j]
    BY DEF LedgerOK
  <2>2. i \in DOMAIN embedded[d]
    BY <1>1, <1>4, <2>1, BuildFiles
  <2> QED BY <1>3, <1>4, <2>1, <2>2, BuildFiles
<1> QED BY <1>1, <1>2, <1>3, <1>4

(* What is missing are the files past the ledger and past those executed.  *)
LEMMA MissingFiles ==
  ASSUME MigrationInv, NEW c \in Controllers, mtx[c] # None
  PROVE  Missing(c) = {i \in DOMAIN embedded[c] : i > Len(ledger) + Len(mtx[c])}
<1>1. /\ LedgerOK /\ mtx[c] \in Seq(Nat)
      /\ Len(mtx[c]) \in Nat /\ DOMAIN mtx[c] = 1 .. Len(mtx[c])
      /\ \A j \in DOMAIN mtx[c] : mtx[c][j] = Len(ledger) + j
  BY DEF MigrationInv, Migrating
<1>l. Len(ledger) \in Nat /\ DOMAIN ledger = 1 .. Len(ledger)
  BY <1>1, LedgerFiles
<1>b. /\ Len(embedded[c]) \in Nat /\ DOMAIN embedded[c] = 1 .. Len(embedded[c])
      /\ \A i \in DOMAIN embedded[c] : i \in Nat \ {0}
  BY <1>1, BuildFiles
<1>2. ASSUME NEW i \in DOMAIN embedded[c], i > Len(ledger) + Len(mtx[c])
      PROVE  i \in Missing(c)
  <2>1. \A k \in DOMAIN ledger : ledger[k][1] # embedded[c][i][1]
    <3>1. SUFFICES ASSUME NEW k \in DOMAIN ledger
                   PROVE  ledger[k][1] # embedded[c][i][1]
      OBVIOUS
    <3>2. k \in DOMAIN embedded[c] /\ k < i
      BY <1>1, <1>2, <1>l, <1>b
    <3>3. /\ ledger[k][1] = embedded[c][k][1] /\ embedded[c][k][1] < embedded[c][i][1]
          /\ embedded[c][k][1] \in Nat /\ embedded[c][i][1] \in Nat
      BY <1>1, <3>2, BuildFiles, LedgerFiles
    <3> QED BY <3>3
  <2>2. \A j \in DOMAIN mtx[c] : mtx[c][j] # i
    BY <1>1, <1>2, <1>l, <1>b
  <2> QED BY <2>1, <2>2 DEF Missing, Recorded
<1>3. ASSUME NEW i \in DOMAIN embedded[c], ~(i > Len(ledger) + Len(mtx[c]))
      PROVE  i \notin Missing(c)
  <2>1. CASE i <= Len(ledger)
    <3>1. i \in DOMAIN ledger
      BY <1>l, <1>b, <2>1
    <3>2. ledger[i][1] = embedded[c][i][1] /\ ledger[i] \in Recorded
      BY <1>1, <3>1, LedgerFiles DEF Recorded
    <3> QED BY <3>2 DEF Missing
  <2>2. CASE ~(i <= Len(ledger))
    <3>1. i - Len(ledger) \in DOMAIN mtx[c] /\ Len(ledger) + (i - Len(ledger)) = i
      BY <1>1, <1>3, <1>l, <1>b, <2>2
    <3>2. mtx[c][i - Len(ledger)] = i
      BY <1>1, <3>1
    <3> QED BY <3>1, <3>2 DEF Missing
  <2> QED BY <2>1, <2>2
<1>4. Missing(c) \subseteq DOMAIN embedded[c]
  BY DEF Missing
<1> QED BY <1>2, <1>3, <1>4

(* A step that is none of the migration's, of a controller that is no      *)
(* busier afterwards than before.                                          *)
LEMMA NoMigration ==
  ASSUME MigrationInv, UNCHANGED <<embedded, ledger, mtx>>,
         \A c \in Controllers : /\ proc'[c] = "migrating" => proc[c] = "migrating"
                                /\ Busy(c)' => Busy(c)
  PROVE  MigrationInv'
<1>1. LedgerOK'
  BY DEF MigrationInv, LedgerOK
<1>2. ASSUME NEW c \in Controllers
      PROVE  Migrating(c)' /\ Migrated(c)'
  <2>1. Migrating(c)'
    BY DEF MigrationInv, Migrating
  <2>2. Applied(c) => Applied(c)'
    BY DEF Applied, Recorded
  <2>3. Migrated(c)'
    BY <2>2 DEF MigrationInv, Migrated, Busy
  <2> QED BY <2>1, <2>3
<1> QED BY <1>1, <1>2 DEF MigrationInv

(* A migration is rolled back.                                             *)
LEMMA MigrationEnds ==
  ASSUME MigrationInv, NEW c \in Controllers, DOMAIN mtx = Controllers,
         mtx' = [mtx EXCEPT ![c] = None], UNCHANGED <<embedded, ledger>>,
         proc'[c] # "migrating",
         \A d \in Controllers : /\ proc'[d] = "migrating" => proc[d] = "migrating"
                                /\ Busy(d)' => Busy(d)
  PROVE  MigrationInv'
<1>1. LedgerOK'
  BY DEF MigrationInv, LedgerOK
<1>2. ASSUME NEW d \in Controllers
      PROVE  Migrating(d)' /\ Migrated(d)'
  <2>1. mtx'[d] = mtx[d] \/ mtx'[d] = None
    OBVIOUS
  <2>2. d # c => mtx'[d] = mtx[d]
    OBVIOUS
  <2>3. \A e \in Controllers : mtx[e] = None => mtx'[e] = None
    OBVIOUS
  <2>4. Migrating(d)'
    BY <2>1, <2>3 DEF MigrationInv, Migrating
  <2>5. Applied(d) => Applied(d)'
    BY DEF Applied, Recorded
  <2>6. Migrated(d)'
    BY <2>2, <2>5 DEF MigrationInv, Migrated, Busy
  <2> QED BY <2>4, <2>6
<1> QED BY <1>1, <1>2 DEF MigrationInv

LEMMA MigrateLockStep ==
  ASSUME MigrationInv, ProcInv, NEW c \in Controllers, MigrateLock(c)
  PROVE  MigrationInv'
<1>1. /\ mtx' = [mtx EXCEPT ![c] = <<>>] /\ UNCHANGED <<embedded, ledger, tx, work>>
      /\ DOMAIN mtx = Controllers /\ \A d \in Controllers : mtx[d] = None
      /\ proc' = [proc EXCEPT ![c] = "migrating"]
      /\ proc \in [Controllers -> Alive \cup {"new", "crashed", "gone"}]
  BY DEF MigrateLock, ProcInv, ProcOK, given, Goto
<1>2. LedgerOK'
  BY <1>1 DEF MigrationInv, LedgerOK
<1>3. mtx'[c] = <<>> /\ mtx'[c] # None /\ \A d \in Controllers \ {c} : mtx'[d] = None
  <2>1. <<>> \in Seq(Nat)
    OBVIOUS
  <2> QED BY <1>1, <2>1, NoneAssumption
<1>4. ASSUME NEW d \in Controllers
      PROVE  Migrating(d)' /\ Migrated(d)'
  <2>1. Migrating(d)'
    <3>1. mtx'[c] \in Seq(Nat) /\ DOMAIN mtx'[c] = {}
      BY <1>3
    <3> QED BY <1>3, <3>1 DEF Migrating
  <2>2. Applied(d) => Applied(d)'
    <3>1. UNCHANGED <<embedded, ledger>> BY <1>1
    <3> QED BY <3>1 DEF Applied, Recorded
  <2>3. Migrated(d)'
    BY <1>1, <1>3, <2>2 DEF MigrationInv, Migrated, Busy
  <2> QED BY <2>1, <2>3
<1> QED BY <1>2, <1>4 DEF MigrationInv

LEMMA MigrateFileStep ==
  ASSUME MigrationInv, ProcInv, NEW c \in Controllers, MigrateFile(c)
  PROVE  MigrationInv'
<1> DEFINE n == Len(ledger) + Len(mtx[c])
<1>1. /\ LedgerOK /\ mtx[c] # None /\ mtx[c] \in Seq(Nat)
      /\ Len(mtx[c]) \in Nat /\ DOMAIN mtx[c] = 1 .. Len(mtx[c])
      /\ \A j \in DOMAIN mtx[c] : mtx[c][j] = Len(ledger) + j /\ mtx[c][j] \in DOMAIN embedded[c]
      /\ \A d \in Controllers \ {c} : mtx[d] = None
  BY DEF MigrateFile, MigrationInv, Migrating, Migrated
<1>2. Missing(c) = {i \in DOMAIN embedded[c] : i > n} /\ Missing(c) # {}
  BY <1>1, MissingFiles DEF MigrateFile
<1>3. n \in Nat
  BY <1>1, LedgerFiles
<1> HIDE DEF n
<1>4. n + 1 \in Missing(c) /\ \A j \in Missing(c) : n + 1 <= j /\ j \in Nat
  <2>1. Len(embedded[c]) \in Nat /\ DOMAIN embedded[c] = 1 .. Len(embedded[c])
    BY <1>1, BuildFiles
  <2> QED BY <1>2, <1>3, <2>1
<1>5. NextFile(c) = n + 1
  <2>1. NextFile(c) \in Missing(c) /\ \A j \in Missing(c) : NextFile(c) <= j
    BY <1>4 DEF NextFile
  <2> QED BY <1>3, <1>4, <2>1
<1>6. /\ mtx' = [mtx EXCEPT ![c] = Append(mtx[c], n + 1)]
      /\ UNCHANGED <<embedded, ledger, tx, work, proc>> /\ DOMAIN mtx = Controllers
  BY <1>5 DEF MigrateFile, ProcInv, ProcOK, given, process
<1>7. mtx'[c] = Append(mtx[c], n + 1) /\ \A d \in Controllers \ {c} : mtx'[d] = None
  BY <1>1, <1>6
<1>8. /\ mtx'[c] \in Seq(Nat) /\ Len(mtx'[c]) = Len(mtx[c]) + 1
      /\ \A j \in 1 .. Len(mtx[c]) : mtx'[c][j] = mtx[c][j]
      /\ mtx'[c][Len(mtx[c]) + 1] = n + 1
  BY <1>1, <1>3, <1>7
<1>9. /\ mtx'[c] # None
      /\ \A j \in DOMAIN mtx'[c] : mtx'[c][j] = Len(ledger) + j /\ mtx'[c][j] \in DOMAIN embedded[c]
  <2>1. DOMAIN mtx'[c] = 1 .. (Len(mtx[c]) + 1)
    BY <1>8
  <2>2. n + 1 \in DOMAIN embedded[c] /\ n + 1 = Len(ledger) + (Len(mtx[c]) + 1)
    BY <1>1, <1>2, <1>4, LedgerFiles DEF n
  <2>3. ASSUME NEW j \in DOMAIN mtx'[c]
        PROVE  mtx'[c][j] = Len(ledger) + j /\ mtx'[c][j] \in DOMAIN embedded[c]
    <3>1. CASE j \in 1 .. Len(mtx[c])
      BY <3>1, <1>1, <1>8
    <3>2. CASE j = Len(mtx[c]) + 1
      BY <3>2, <1>8, <2>2
    <3> QED BY <1>1, <2>1, <2>3, <3>1, <3>2
  <2> QED BY <1>8, <2>3, NoneAssumption
<1>10. LedgerOK'
  BY <1>6 DEF MigrationInv, LedgerOK
<1>11. ASSUME NEW d \in Controllers
       PROVE  Migrating(d)' /\ Migrated(d)'
  <2>1. Migrating(d)'
    BY <1>6, <1>7, <1>8, <1>9 DEF Migrating
  <2>2. Applied(d) => Applied(d)'
    BY <1>6 DEF Applied, Recorded
  <2>3. Migrated(d)'
    BY <1>6, <1>7, <1>9, <2>2 DEF MigrationInv, Migrated, Busy
  <2> QED BY <2>1, <2>3
<1> QED BY <1>10, <1>11 DEF MigrationInv

LEMMA MigrateCommitStep ==
  ASSUME MigrationInv, ProcInv, NEW c \in Controllers, MigrateCommit(c)
  PROVE  MigrationInv'
<1> DEFINE executed == [j \in DOMAIN mtx[c] |-> embedded[c][mtx[c][j]]]
<1>1. /\ LedgerOK /\ mtx[c] # None /\ mtx[c] \in Seq(Nat)
      /\ Len(mtx[c]) \in Nat /\ DOMAIN mtx[c] = 1 .. Len(mtx[c])
      /\ \A j \in DOMAIN mtx[c] : mtx[c][j] = Len(ledger) + j /\ mtx[c][j] \in DOMAIN embedded[c]
      /\ \A d \in Controllers \ {c} : mtx[d] = None
  BY DEF MigrateCommit, MigrationInv, Migrating, Migrated
<1>2. /\ Missing(c) = {} /\ Changed(c) = {} /\ ledger' = ledger \o executed
      /\ mtx' = [mtx EXCEPT ![c] = None] /\ UNCHANGED <<embedded, tx, work>>
      /\ proc'[c] # "migrating" /\ \A d \in Controllers \ {c} : proc'[d] = proc[d]
      /\ DOMAIN mtx = Controllers
  BY DEF MigrateCommit, ProcInv, ProcOK, Goto, given
<1>3. executed \in Seq(Nat \X STRING) /\ Len(executed) = Len(mtx[c])
  <2>1. \A j \in 1 .. Len(mtx[c]) : executed[j] \in Nat \X STRING
    BY <1>1, BuildFiles
  <2>2. executed = [j \in 1 .. Len(mtx[c]) |-> executed[j]]
    BY <1>1
  <2> HIDE DEF executed
  <2>3. executed \in [1 .. Len(mtx[c]) -> Nat \X STRING]
    BY <2>1, <2>2
  <2> QED BY <1>1, <2>3
<1>4. \A j \in 1 .. Len(mtx[c]) :
        executed[j] = embedded[c][Len(ledger) + j] /\ Len(ledger) + j \in DOMAIN embedded[c]
  BY <1>1
<1> HIDE DEF executed
<1>5. /\ ledger' \in Seq(Nat \X STRING) /\ Len(ledger') = Len(ledger) + Len(mtx[c])
      /\ DOMAIN ledger' = 1 .. (Len(ledger) + Len(mtx[c]))
      /\ \A i \in DOMAIN ledger : i \in DOMAIN ledger' /\ ledger'[i] = ledger[i]
      /\ \A j \in 1 .. Len(mtx[c]) : /\ Len(ledger) + j \in DOMAIN ledger'
                                     /\ ledger'[Len(ledger) + j] = executed[j]
  <2>1. ledger \in Seq(Nat \X STRING) /\ Len(ledger) \in Nat /\ DOMAIN ledger = 1 .. Len(ledger)
    BY <1>1, LedgerFiles DEF LedgerOK
  <2>2. Len(executed) \in Nat /\ executed \in Seq(Nat \X STRING)
    BY <1>1, <1>3
  <2>3. ledger' \in Seq(Nat \X STRING) /\ Len(ledger') = Len(ledger) + Len(mtx[c])
    <3>1. /\ ledger \o executed \in Seq(Nat \X STRING)
          /\ Len(ledger \o executed) = Len(ledger) + Len(executed)
      BY <2>1, <2>2, ConcatProperties
    <3> QED BY <1>2, <1>3, <3>1
  <2>4. DOMAIN ledger' = 1 .. (Len(ledger) + Len(mtx[c]))
    BY <2>3
  <2>5. \A i \in 1 .. (Len(ledger) + Len(executed)) :
          (ledger \o executed)[i] = IF i <= Len(ledger) THEN ledger[i] ELSE executed[i - Len(ledger)]
    BY <2>1, <2>2
  <2>6. \A i \in 1 .. (Len(ledger) + Len(mtx[c])) :
          ledger'[i] = IF i <= Len(ledger) THEN ledger[i] ELSE executed[i - Len(ledger)]
    BY <1>2, <1>3, <2>5
  <2>7. \A i \in DOMAIN ledger : i \in DOMAIN ledger' /\ ledger'[i] = ledger[i]
    BY <1>1, <2>1, <2>4, <2>6
  <2>8. ASSUME NEW j \in 1 .. Len(mtx[c])
        PROVE  Len(ledger) + j \in DOMAIN ledger' /\ ledger'[Len(ledger) + j] = executed[j]
    <3>1. /\ Len(ledger) + j \in 1 .. (Len(ledger) + Len(mtx[c]))
          /\ ~(Len(ledger) + j <= Len(ledger)) /\ (Len(ledger) + j) - Len(ledger) = j
      BY <1>1, <2>1
    <3> QED BY <2>4, <2>6, <3>1
  <2> QED BY <2>3, <2>4, <2>7, <2>8
<1>6. LedgerOK'
  <2>1. ASSUME NEW i \in DOMAIN ledger'
        PROVE  \E d \in Controllers : i \in DOMAIN embedded[d] /\ ledger'[i] = embedded[d][i]
    <3>1. CASE i \in DOMAIN ledger
      BY <3>1, <1>1, <1>5 DEF LedgerOK
    <3>2. CASE i \notin DOMAIN ledger
      <4>1. i - Len(ledger) \in 1 .. Len(mtx[c]) /\ Len(ledger) + (i - Len(ledger)) = i
        BY <1>1, <1>5, <2>1, <3>2, LedgerFiles
      <4> DEFINE j == i - Len(ledger)
      <4>2. j \in 1 .. Len(mtx[c]) /\ Len(ledger) + j = i
        BY <4>1
      <4> HIDE DEF j
      <4>3. ledger'[i] = embedded[c][i] /\ i \in DOMAIN embedded[c]
        BY <4>2, <1>4, <1>5
      <4> QED BY <4>3
    <3> QED BY <3>1, <3>2
  <2> QED BY <1>1, <1>2, <1>5, <2>1 DEF LedgerOK
<1>7. Recorded \subseteq Recorded'
  BY <1>5 DEF Recorded
<1>8. Applied(c)'
  <2>1. SUFFICES ASSUME NEW i \in DOMAIN embedded[c]
                 PROVE  embedded[c][i] \in Recorded'
    BY <1>2 DEF Applied
  <2>2. CASE \E f \in Recorded : f[1] = embedded[c][i][1]
    <3>1. PICK f \in Recorded : f[1] = embedded[c][i][1]
      BY <2>2
    <3>2. f[2] = embedded[c][i][2]
      BY <1>2, <3>1 DEF Changed
    <3>3. f \in Nat \X STRING /\ embedded[c][i] \in Nat \X STRING
      BY <1>1, BuildFiles, LedgerFiles DEF Recorded
    <3>4. f = embedded[c][i]
      BY <3>1, <3>2, <3>3
    <3> QED BY <3>4, <1>7
  <2>3. CASE \E j \in DOMAIN mtx[c] : mtx[c][j] = i
    <3>1. PICK j \in DOMAIN mtx[c] : mtx[c][j] = i
      BY <2>3
    <3>2. ledger'[Len(ledger) + j] = embedded[c][i] /\ Len(ledger) + j \in DOMAIN ledger'
      <4>1. j \in 1 .. Len(mtx[c]) /\ Len(ledger) + j = i
        BY <3>1, <1>1
      <4> QED BY <4>1, <1>4, <1>5
    <3> QED BY <3>2 DEF Recorded
  <2> QED BY <1>2, <2>2, <2>3 DEF Missing
<1>9. ASSUME NEW d \in Controllers
      PROVE  Migrating(d)' /\ Migrated(d)'
  <2>1. mtx'[d] = None
    BY <1>1, <1>2
  <2>2. Migrating(d)'
    BY <2>1 DEF Migrating
  <2>3. CASE d = c
    BY <2>2, <2>3, <1>2, <1>8 DEF Migrated
  <2>4. CASE d # c
    <3>1. proc'[d] = proc[d] /\ (Busy(d)' => Busy(d)) /\ mtx[d] = None
      BY <1>1, <1>2, <2>4 DEF Busy
    <3>2. Applied(d) => Applied(d)'
      BY <1>2, <1>7 DEF Applied
    <3> QED BY <2>2, <3>1, <3>2 DEF MigrationInv, Migrated, Busy
  <2> QED BY <2>2, <2>3, <2>4
<1> QED BY <1>6, <1>9 DEF MigrationInv

(* Nobody works before its migration, and who has begun may go on.         *)
LEMMA MigrationStep == IInv /\ MigrationInv /\ [Next]_vars => MigrationInv'
<1> SUFFICES ASSUME IInv, MigrationInv, [Next]_vars
             PROVE  MigrationInv'
  OBVIOUS
<1>1. /\ ProcInv /\ DOMAIN mtx = Controllers /\ tx \in [Controllers -> Transaction]
      /\ proc \in [Controllers -> Alive \cup {"new", "crashed", "gone"}]
      /\ work \in [Controllers -> Ids \cup {None}]
  BY DEF IInv, ProcInv, ProcOK, DataInv, DataOK
<1>2. ASSUME NEW c \in Controllers, MigrateFail(c)
      PROVE  MigrationInv'
  <2>1. /\ mtx' = [mtx EXCEPT ![c] = None] /\ UNCHANGED <<embedded, ledger, tx, work>>
        /\ proc' = [proc EXCEPT ![c] = "closing"]
    BY <1>2 DEF MigrateFail, Goto, given
  <2>2. \A d \in Controllers :
          /\ proc'[d] = "migrating" => proc[d] = "migrating"
          /\ Busy(d)' => Busy(d)
    BY <1>1, <2>1 DEF Busy
  <2>3. proc'[c] # "migrating"
    BY <1>1, <2>1
  <2> QED BY <1>1, <2>1, <2>2, <2>3, MigrationEnds
<1>3. ASSUME NEW c \in Controllers, BackendEnds(c)
      PROVE  MigrationInv'
  <2>1. /\ mtx' = [mtx EXCEPT ![c] = None] /\ UNCHANGED <<embedded, ledger, work>>
        /\ proc' = [proc EXCEPT ![c] = "gone"] /\ tx' = [tx EXCEPT ![c] = NoTransaction]
    BY <1>3 DEF BackendEnds, Goto, given
  <2>2. NoTransaction.stage = "none"
    BY DEF NoTransaction
  <2>3. \A d \in Controllers :
          /\ proc'[d] = "migrating" => proc[d] = "migrating"
          /\ Busy(d)' => Busy(d)
    BY <1>1, <2>1, <2>2 DEF Busy
  <2>4. proc'[c] # "migrating"
    BY <1>1, <2>1
  <2> QED BY <1>1, <2>1, <2>3, <2>4, MigrationEnds
<1>4. CASE UNCHANGED <<embedded, ledger, mtx>> /\
           \A c \in Controllers :
             /\ proc'[c] = "migrating" => proc[c] = "migrating"
             /\ Busy(c)' => Busy(c)
  BY <1>4, NoMigration
<1>5. CASE NewCollection \/ UNCHANGED vars
  BY <1>4, <1>5 DEF NewCollection, vars, given, server, process, Busy
<1>6. ASSUME NEW c \in Controllers,
             \/ Open(c) \/ Accept(c) \/ Query(c) \/ QueryEnds(c) \/ Answer(c)
             \/ Stop(c) \/ Shutdown(c) \/ Join(c)
      PROVE  MigrationInv'
  <2>1. /\ UNCHANGED <<embedded, ledger, mtx, tx, work>>
        /\ \/ UNCHANGED proc
           \/ proc' = [proc EXCEPT ![c] = "locking"]
           \/ proc[c] = "running" /\ proc' = [proc EXCEPT ![c] = "stopping"]
           \/ proc[c] = "stopping" /\ proc' = [proc EXCEPT ![c] = "joining"]
           \/ proc' = [proc EXCEPT ![c] = "closing"]
    BY <1>6 DEF Open, Accept, Query, QueryEnds, Answer, Stop, Shutdown, Join, Goto, given, server
  <2> QED BY <1>1, <1>4, <2>1 DEF Busy
<1>7. ASSUME NEW c \in Controllers, Exit(c) \/ Crash(c)
      PROVE  MigrationInv'
  <2>1. /\ UNCHANGED <<embedded, ledger, mtx, tx>>
        /\ work' = [work EXCEPT ![c] = None]
        /\ \/ proc' = [proc EXCEPT ![c] = "gone"]
           \/ proc' = [proc EXCEPT ![c] = "crashed"]
    BY <1>7 DEF Exit, Crash, Gone, Goto, given, server
  <2> QED BY <1>1, <1>4, <2>1 DEF Busy
<1>8. ASSUME NEW c \in Controllers, FetchTopology(c)
      PROVE  MigrationInv'
  <2>1. /\ UNCHANGED <<embedded, ledger, mtx, tx, proc>> /\ proc[c] = "running"
        /\ work' = [work EXCEPT ![c] = current]
    BY <1>8 DEF FetchTopology, given, server
  <2> QED BY <1>1, <1>4, <2>1 DEF Busy
<1>9. ASSUME NEW c \in Controllers,
             \/ InsertRun(c) \/ upsertMachine(c) \/ markMissingMachinesInactive(c)
             \/ MarkRow(c)
      PROVE  MigrationInv'
  <2>1. UNCHANGED <<embedded, ledger, mtx, proc, work>> /\ work[c] # None
    BY <1>9 DEF InsertRun, Begins, upsertMachine, markMissingMachinesInactive, MarkRow, given,
                process
  <2>2. \A d \in Controllers \ {c} : tx'[d] = tx[d]
    BY <1>1, <1>9 DEF InsertRun, upsertMachine, markMissingMachinesInactive, MarkRow
  <2> QED BY <1>4, <2>1, <2>2 DEF Busy
<1>10. ASSUME NEW c \in Controllers, Commit(c) \/ Duplicate(c) \/ AttemptFail(c)
       PROVE  MigrationInv'
  <2>1. /\ UNCHANGED <<embedded, ledger, mtx, proc>>
        /\ work' = [work EXCEPT ![c] = None] /\ tx' = [tx EXCEPT ![c] = NoTransaction]
    BY <1>10 DEF Commit, Duplicate, AttemptFail, EndAttempt, given
  <2>2. NoTransaction.stage = "none"
    BY DEF NoTransaction
  <2> QED BY <1>1, <1>4, <2>1, <2>2 DEF Busy
<1>11. ASSUME NEW c \in Controllers, NEW a \in Controllers, AttemptLingers(c, a)
       PROVE  MigrationInv'
  <2>1. /\ UNCHANGED <<embedded, ledger, mtx>> /\ proc' = [proc EXCEPT ![a] = "crashed"]
        /\ work' = [work EXCEPT ![c] = None]
    BY <1>11 DEF AttemptLingers, Goto, given
  <2> QED BY <1>1, <1>4, <2>1 DEF Busy
<1> QED BY <1>1, <1>2, <1>3, <1>5, <1>6, <1>7, <1>8, <1>9, <1>10, <1>11,
           MigrateLockStep, MigrateFileStep, MigrateCommitStep DEF Next

LEMMA MigrationInit == Init => MigrationInv
<1> SUFFICES ASSUME Init PROVE MigrationInv
  OBVIOUS
<1>1. \A c \in Controllers :
        mtx[c] = None /\ proc[c] = "new" /\ work[c] = None /\ tx[c].stage = "none"
  BY DEF Init, NoTransaction
<1>2. LedgerOK
  <2>1. ledger = <<>> /\ embedded \in Builds
    BY DEF Init
  <2>2. ledger \in Seq(Nat \X STRING) /\ DOMAIN ledger = {}
    BY <2>1
  <2> QED BY <2>1, <2>2 DEF LedgerOK
<1> QED BY <1>1, <1>2 DEF MigrationInv, Migrating, Migrated, Busy

(* The advisory lock and the single transaction of database.go suffice:    *)
(* whichever builds start together and wherever they die, no file is       *)
(* applied twice or before an earlier one, and no worker runs on a         *)
(* database that lacks a file of its build or has it with other contents.  *)
THEOREM MigratedOnce == Spec => []MigrationsHappenOnce
<1>1. MigrationInv => MigrationsHappenOnce
  BY LedgerFiles DEF MigrationInv, Migrated, Busy, Applied, MigrationsHappenOnce
<1> QED BY <1>1, MigrationInit, MigrationStep, Invariance, PTL DEF Spec

-----------------------------------------------------------------------------
(* Waiting. What lets a started controller go on: one of the steps that    *)
(* Fairness names has what it needs, its own or that of its worker, of its *)
(* request, or of the database once the process is dead.                   *)
CanMove(c) ==
  \/ proc[c] = "locking" /\ \A d \in Controllers : mtx[d] = None
  \/ proc[c] = "migrating" /\ (Changed(c) # {} \/ ~Alters(c) \/ \A d \in Controllers : ~UsesRuns(d))
  \/ proc[c] \in {"stopping", "joining", "crashed"}
  \/ proc[c] = "closing" /\ ~UsesRuns(c) /\ request[c] # "query"
  \/ work[c] # None
  \/ c \in Serving /\ request[c] = "query" /\ ~RunsLocked

(* Whom it waits for otherwise: the holder of the advisory lock, those who *)
(* have used the table to be altered, or those who alter it.               *)
BlockedBy(c) ==
  {d \in Controllers :
     \/ proc[c] = "locking" /\ mtx[d] # None
     \/ proc[c] = "migrating" /\ UsesRuns(d)
     \/ proc[c] = "closing" /\ (Executed(d, Altering) \/ Alters(d))}

(* Nobody waits in a circle: who cannot move waits for somebody, and all   *)
(* it waits for can move, or wait only for such as can.                    *)
NoCircularWait ==
  \A c \in Controllers : proc[c] \notin {"new", "running", "gone"} /\ ~CanMove(c) =>
    /\ BlockedBy(c) # {}
    /\ \A d \in BlockedBy(c) : ~CanMove(d) =>
         BlockedBy(d) # {} /\ \A e \in BlockedBy(d) : CanMove(e)

(* Only controllers that serve the API have requests.                      *)
Requested == \A c \in Controllers : request[c] # "none" => c \in Serving

LEMMA RequestedStep == ProcInv /\ Requested /\ [Next]_vars => Requested'
<1> SUFFICES ASSUME ProcInv, Requested, [Next]_vars PROVE Requested'
  OBVIOUS
<1>1. request \in [Controllers -> {"none", "open", "query"}]
  BY DEF ProcInv, ProcOK
<1>2. CASE UNCHANGED request
  BY <1>2 DEF Requested
<1>3. ASSUME NEW c \in Controllers, Accept(c) \/ Query(c) \/ QueryEnds(c) \/ Answer(c)
      PROVE  Requested'
  BY <1>1, <1>3 DEF Accept, Query, QueryEnds, Answer, Requested
<1>4. ASSUME NEW c \in Controllers, Exit(c) \/ Crash(c)
      PROVE  Requested'
  <2>1. request' = [request EXCEPT ![c] = "none"]
    BY <1>4 DEF Exit, Crash, Gone
  <2> QED BY <1>1, <2>1 DEF Requested
<1>5. CASE NewCollection \/ UNCHANGED vars
  BY <1>2, <1>5 DEF NewCollection, vars, process
<1>6. ASSUME NEW c \in Controllers,
             \/ Open(c) \/ MigrateLock(c) \/ MigrateFile(c) \/ MigrateCommit(c) \/ MigrateFail(c)
      PROVE  UNCHANGED request
  BY <1>6 DEF Open, MigrateLock, MigrateFile, MigrateCommit, MigrateFail, process
<1>7. ASSUME NEW c \in Controllers,
             \/ FetchTopology(c) \/ InsertRun(c) \/ upsertMachine(c)
             \/ markMissingMachinesInactive(c) \/ MarkRow(c) \/ Commit(c) \/ Duplicate(c)
             \/ AttemptFail(c) \/ \E a \in Controllers : AttemptLingers(c, a)
      PROVE  UNCHANGED request
  BY <1>7 DEF FetchTopology, InsertRun, upsertMachine, markMissingMachinesInactive, MarkRow,
              Commit, Duplicate, AttemptFail, AttemptLingers, process
<1>8. ASSUME NEW c \in Controllers, Stop(c) \/ Shutdown(c) \/ Join(c) \/ BackendEnds(c)
      PROVE  UNCHANGED request
  BY <1>8 DEF Stop, Shutdown, Join, BackendEnds
<1> QED BY <1>2, <1>3, <1>4, <1>5, <1>6, <1>7, <1>8, Zenon DEF Next

(* A transaction has a worker with a deadline, or its process is dead and  *)
(* the database will end it: its owner can move.                           *)
LEMMA UsersCanMove ==
  ASSUME ProcInv, NEW c \in Controllers, UsesRuns(c)
  PROVE  CanMove(c)
BY Zenon DEF ProcInv, Held, UsesRuns, CanMove

(* A migration waits for nobody, or only for users of the runs.            *)
LEMMA MigrationsCanMove ==
  ASSUME ProcInv, NEW c \in Controllers,
         proc[c] \in {"migrating", "crashed"}, ~CanMove(c)
  PROVE  BlockedBy(c) # {} /\ \A d \in BlockedBy(c) : CanMove(d)
<1>1. proc[c] = "migrating" /\ \E d \in Controllers : UsesRuns(d)
  BY DEF CanMove
<1>2. BlockedBy(c) = {d \in Controllers : UsesRuns(d)}
  BY <1>1 DEF BlockedBy
<1> QED BY <1>1, <1>2, UsersCanMove

(* Whatever holds a controller up, at start under the advisory lock, at an *)
(* ALTER TABLE, or when its pool waits for a query, at the end of at most  *)
(* two waits is somebody that can go on: the safety that NeverStuck rests  *)
(* on (database.go, main.go).                                              *)
THEOREM WaitsEnd == Spec => []NoCircularWait
<1>1. ASSUME ProcInv, Requested, NEW c \in Controllers,
             proc[c] \notin {"new", "running", "gone"}, ~CanMove(c)
      PROVE  /\ BlockedBy(c) # {}
             /\ \A d \in BlockedBy(c) : ~CanMove(d) =>
                  BlockedBy(d) # {} /\ \A e \in BlockedBy(d) : CanMove(e)
  <2>1. proc[c] \in {"locking", "migrating", "closing"}
    BY <1>1 DEF ProcInv, ProcOK, Alive, CanMove
  <2>2. CASE proc[c] = "locking"
    <3>1. BlockedBy(c) = {d \in Controllers : mtx[d] # None}
      BY <2>2 DEF BlockedBy
    <3>2. BlockedBy(c) # {}
      BY <1>1, <2>2, <3>1 DEF CanMove
    <3>3. \A d \in BlockedBy(c) : d \in Controllers /\ proc[d] \in {"migrating", "crashed"}
      BY <1>1, <3>1 DEF ProcInv, Held
    <3> QED BY <1>1, <3>2, <3>3, MigrationsCanMove
  <2>3. CASE proc[c] = "migrating"
    BY <1>1, <2>3, MigrationsCanMove
  <2>4. CASE proc[c] = "closing"
    <3>1. BlockedBy(c) = {d \in Controllers : Executed(d, Altering) \/ Alters(d)}
      BY <2>4 DEF BlockedBy
    <3>2. ~UsesRuns(c)
      BY <1>1, UsersCanMove
    <3>3. request[c] = "query"
      BY <1>1, <2>4, <3>2 DEF CanMove
    <3>4. c \in Serving
      BY <1>1, <3>3 DEF Requested
    <3>5. RunsLocked
      BY <1>1, <3>3, <3>4 DEF CanMove
    <3>6. \A d \in BlockedBy(c) : d \in Controllers /\ proc[d] \in {"migrating", "crashed"}
      BY <1>1, <3>1 DEF ProcInv, Held, Executed, Alters
    <3> QED BY <1>1, <3>1, <3>5, <3>6, MigrationsCanMove DEF RunsLocked
  <2> QED BY <2>1, <2>2, <2>3, <2>4
<1>2. ProcInv /\ Requested => NoCircularWait
  BY <1>1 DEF NoCircularWait
<1>3. Init => Requested
  BY DEF Init, Requested
<1>4. IInv => ProcInv
  BY DEF IInv
<1> QED BY <1>2, <1>3, <1>4, RequestedStep, Invariance, PTL DEF Spec

-----------------------------------------------------------------------------
(* Liveness. The provers do not compute ENABLED: that the fair steps can   *)
(* be taken when their guards hold is a hypothesis of the theorems below.  *)
MainCanStep(c) == ENABLED <<Main(c)>>_vars
AttemptCanFail(c) == ENABLED <<AttemptFail(c)>>_vars
QueryCanEnd(c) == ENABLED <<QueryEnds(c)>>_vars

Ready(c) ==
  \/ proc[c] \in {"stopping", "joining", "crashed"}
  \/ proc[c] = "closing" /\ ~UsesRuns(c) /\ request[c] # "query"

ReadyStepsCanBeTaken ==
  \A c \in Controllers :
    /\ Ready(c) => MainCanStep(c)
    /\ work[c] # None => AttemptCanFail(c)
    /\ request[c] = "query" /\ ~RunsLocked => QueryCanEnd(c)

Is(c, where) == proc[c] = where

(* Of a controller that ends, what a step may change.                      *)
Onward(c) ==
  /\ \/ proc'[c] = proc[c]
     \/ Is(c, "stopping") /\ Is(c, "joining")'
     \/ Is(c, "joining") /\ Is(c, "closing")'
     \/ ~Is(c, "crashed") /\ Is(c, "crashed")'
     \/ Is(c, "gone")'
  /\ Is(c, "closing") /\ Is(c, "closing")' =>
       /\ UsesRuns(c)' => UsesRuns(c)
       /\ request'[c] = "query" => request[c] = "query"

Ending == {"stopping", "joining", "closing", "crashed"}

LEMMA EndingStep ==
  ASSUME IInv, NEW c \in Controllers, proc[c] \in Ending, [Next]_vars
  PROVE  Onward(c)
<1>1. /\ proc \in [Controllers -> Alive \cup {"new", "crashed", "gone"}]
      /\ tx \in [Controllers -> Transaction] /\ NoTransaction.stage = "none"
      /\ request \in [Controllers -> {"none", "open", "query"}]
  BY DEF IInv, ProcInv, ProcOK, DataInv, DataOK, NoTransaction
<1>2. CASE UNCHANGED <<proc, tx, request>>
  BY <1>2 DEF Onward, Is, UsesRuns
<1>3. CASE NewCollection \/ UNCHANGED vars
  BY <1>2, <1>3, Zenon DEF NewCollection, vars, server, process
<1>4. ASSUME NEW d \in Controllers,
             \/ Open(d) \/ MigrateLock(d) \/ MigrateFile(d) \/ MigrateCommit(d) \/ MigrateFail(d)
      PROVE  Onward(c)
  <2>1. UNCHANGED <<tx, request>> /\ d # c
    BY <1>4 DEF Open, MigrateLock, MigrateFile, MigrateCommit, MigrateFail, Ending, server,
                process
  <2>2. UNCHANGED proc \/ \E where : Goto(d, where)
    BY <1>4 DEF Open, MigrateLock, MigrateFile, MigrateCommit, MigrateFail, process
  <2>3. proc'[c] = proc[c]
    BY <1>1, <2>1, <2>2 DEF Goto
  <2> QED BY <2>1, <2>3 DEF Onward, Is, UsesRuns
<1>5. ASSUME NEW d \in Controllers, InsertRun(d)
      PROVE  Onward(c)
  <2>1. UNCHANGED <<proc, request>> /\ ~Is(d, "closing")
    BY <1>5 DEF InsertRun, Begins, process, Is
  <2>2. d # c => tx'[c] = tx[c]
    BY <1>1, <1>5 DEF InsertRun
  <2> QED BY <2>1, <2>2 DEF Onward, Is, UsesRuns
<1>6. ASSUME NEW d \in Controllers,
             \/ upsertMachine(d) \/ markMissingMachinesInactive(d) \/ MarkRow(d)
      PROVE  Onward(c)
  <2>1. UNCHANGED <<proc, request>> /\ UsesRuns(d)
    BY <1>6 DEF upsertMachine, markMissingMachinesInactive, MarkRow, process, UsesRuns
  <2>2. d # c => tx'[c] = tx[c]
    BY <1>1, <1>6 DEF upsertMachine, markMissingMachinesInactive, MarkRow
  <2> QED BY <2>1, <2>2 DEF Onward, Is, UsesRuns
<1>7. ASSUME NEW d \in Controllers, Commit(d) \/ Duplicate(d) \/ AttemptFail(d)
      PROVE  Onward(c)
  <2>1. UNCHANGED <<proc, request>> /\ tx' = [tx EXCEPT ![d] = NoTransaction]
    BY <1>7 DEF Commit, Duplicate, AttemptFail, EndAttempt
  <2>2. UsesRuns(c)' => UsesRuns(c)
    BY <1>1, <2>1 DEF UsesRuns
  <2> QED BY <2>1, <2>2 DEF Onward, Is
<1>8. CASE \E d \in Controllers : FetchTopology(d)
  BY <1>2, <1>8 DEF FetchTopology, server
<1>9. ASSUME NEW d \in Controllers, Accept(d) \/ Query(d) \/ QueryEnds(d) \/ Answer(d)
      PROVE  Onward(c)
  <2>1. UNCHANGED <<proc, tx>>
    BY <1>9 DEF Accept, Query, QueryEnds, Answer, server
  <2>2. Is(c, "closing") /\ request'[c] = "query" => request[c] = "query"
    BY <1>1, <1>9 DEF Accept, Query, QueryEnds, Answer, Is
  <2> QED BY <2>1, <2>2 DEF Onward, Is, UsesRuns
<1>10. ASSUME NEW d \in Controllers, Stop(d) \/ Shutdown(d) \/ Join(d)
       PROVE  Onward(c)
  <2>1. UNCHANGED <<tx, request>>
    BY <1>10 DEF Stop, Shutdown, Join, server
  <2>2. \/ proc'[c] = proc[c]
        \/ Is(c, "stopping") /\ Is(c, "joining")'
        \/ Is(c, "joining") /\ Is(c, "closing")'
    BY <1>1, <1>10 DEF Stop, Shutdown, Join, Goto, Ending, Is
  <2> QED BY <2>1, <2>2 DEF Onward, Is, UsesRuns
<1>11. ASSUME NEW d \in Controllers, Exit(d) \/ Crash(d)
       PROVE  Onward(c)
  <2>1. UNCHANGED tx /\ request' = [request EXCEPT ![d] = "none"]
    BY <1>11 DEF Exit, Crash, Gone, server
  <2>2. \/ proc'[c] = proc[c]
        \/ Is(c, "gone")'
        \/ ~Is(c, "crashed") /\ Is(c, "crashed")'
    BY <1>1, <1>11 DEF Exit, Crash, Goto, Alive, Is
  <2>3. request'[c] = "query" => request[c] = "query"
    BY <1>1, <2>1
  <2> QED BY <2>1, <2>2, <2>3 DEF Onward, Is, UsesRuns
<1>12. ASSUME NEW d \in Controllers, BackendEnds(d)
       PROVE  Onward(c)
  <2>1. UNCHANGED request /\ tx' = [tx EXCEPT ![d] = NoTransaction]
    BY <1>12 DEF BackendEnds
  <2>2. proc'[c] = proc[c] \/ Is(c, "gone")'
    BY <1>1, <1>12 DEF BackendEnds, Goto, Is
  <2>3. UsesRuns(c)' => UsesRuns(c)
    BY <1>1, <2>1 DEF UsesRuns
  <2> QED BY <2>1, <2>2, <2>3 DEF Onward, Is
<1>13. ASSUME NEW d \in Controllers, NEW a \in Controllers, AttemptLingers(d, a)
       PROVE  Onward(c)
  <2>1. /\ UNCHANGED request /\ tx' = [tx EXCEPT ![a] = tx[d], ![d] = NoTransaction]
        /\ proc' = [proc EXCEPT ![a] = "crashed"] /\ proc[a] = "new"
    BY <1>13 DEF AttemptLingers, Goto
  <2>2. a # c /\ proc'[c] = proc[c]
    BY <1>1, <2>1 DEF Ending
  <2>3. UsesRuns(c)' => UsesRuns(c)
    BY <1>1, <2>1, <2>2 DEF UsesRuns
  <2> QED BY <2>1, <2>2, <2>3 DEF Onward, Is
<1> QED BY <1>3, <1>4, <1>5, <1>6, <1>7, <1>8, <1>9, <1>10, <1>11, <1>12, <1>13, Zenon
        DEF Next

(* The fair steps bring it on.                                             *)
LEMMA FairSteps ==
  ASSUME IInv, NEW c \in Controllers
  PROVE  /\ Main(c) /\ proc[c] \in Ending => proc'[c] # proc[c]
         /\ AttemptFail(c) => ~UsesRuns(c)'
         /\ QueryEnds(c) => request'[c] # "query"
<1>1. /\ proc \in [Controllers -> Alive \cup {"new", "crashed", "gone"}]
      /\ tx \in [Controllers -> Transaction] /\ NoTransaction.stage = "none"
      /\ request \in [Controllers -> {"none", "open", "query"}]
  BY DEF IInv, ProcInv, ProcOK, DataInv, DataOK, NoTransaction
<1>2. Main(c) /\ proc[c] \in Ending => proc'[c] # proc[c]
  <2> SUFFICES ASSUME Main(c), proc[c] \in Ending PROVE proc'[c] # proc[c]
    OBVIOUS
  <2>1. Shutdown(c) \/ Join(c) \/ Exit(c) \/ BackendEnds(c)
    BY DEF Main, MigrateLock, MigrateFile, MigrateCommit, MigrateFail, Ending
  <2> QED BY <1>1, <2>1 DEF Shutdown, Join, Exit, BackendEnds, Goto
<1>3. AttemptFail(c) => ~UsesRuns(c)'
  BY <1>1 DEF AttemptFail, EndAttempt, UsesRuns
<1>4. QueryEnds(c) => request'[c] # "query"
  BY <1>1 DEF QueryEnds
<1> QED BY <1>2, <1>3, <1>4

(* No transaction stays open in the database: its attempt commits, fails   *)
(* or meets its deadline, and when its process died or left it behind, the *)
(* database ends it. The locks it holds are released.                      *)
TransactionsEnd == \A c \in Controllers : UsesRuns(c) ~> ~UsesRuns(c)

LEMMA TransactionEnds ==
  ASSUME NEW c \in Controllers
  PROVE  Spec /\ []ReadyStepsCanBeTaken => (UsesRuns(c) ~> ~UsesRuns(c))
<1> DEFINE Works == work[c] # None
<1>1. IInv /\ UsesRuns(c) => Works \/ Is(c, "crashed")
  BY DEF IInv, ProcInv, Held, UsesRuns, Is
<1>2. IInv /\ Is(c, "gone") => ~UsesRuns(c)
  BY DEF IInv, ProcInv, Held, UsesRuns, Is
<1>3. IInv /\ Is(c, "crashed") => ~Works
  BY DEF IInv, ProcInv, Held, Is
<1>4. IInv /\ Is(c, "crashed") /\ [Next]_vars => Is(c, "crashed")' \/ Is(c, "gone")'
  BY EndingStep DEF Ending, Onward, Is
<1>5. IInv /\ Is(c, "crashed") /\ <<Main(c)>>_vars => ~Is(c, "crashed")'
  BY FairSteps DEF Ending, Is
<1>6. IInv /\ <<AttemptFail(c)>>_vars => ~UsesRuns(c)'
  BY FairSteps
<1>7. /\ ReadyStepsCanBeTaken /\ Works => AttemptCanFail(c)
      /\ ReadyStepsCanBeTaken /\ Is(c, "crashed") => MainCanStep(c)
  BY DEF ReadyStepsCanBeTaken, Ready, Is
<1>8. Fairness => ProcessFairness(c)
  BY DEF Fairness
<1>9. Main(c) => Next
  BY DEF Main, Next
<1> HIDE DEF Works
<1> QED BY <1>1, <1>2, <1>3, <1>4, <1>5, <1>6, <1>7, <1>8, <1>9, Invariance, PTL
        DEF Spec, ProcessFairness, AttemptCanFail, MainCanStep

(* The deadline of an attempt covers its whole transaction, and no step    *)
(* can separate a transaction from the process or the backend that will    *)
(* end it (poller.go, ingest/store.go).                                    *)
THEOREM TransactionsDoEnd == Spec /\ []ReadyStepsCanBeTaken => TransactionsEnd
<1> SUFFICES ASSUME NEW c \in Controllers
             PROVE  Spec /\ []ReadyStepsCanBeTaken => (UsesRuns(c) ~> ~UsesRuns(c))
  BY DEF TransactionsEnd
<1> QED BY TransactionEnds

(* A controller that is told to stop, and one that dies, ends: from where  *)
(* it waits for its server, for its worker, for its pool or for the        *)
(* database, if in the end no migration of another controller keeps the    *)
(* table of runs locked.                                                   *)
StoppingEnds ==
  \A c \in Controllers :
    <>[](~RunsLocked) => (proc[c] \in Ending ~> proc[c] = "gone")

(* Neither a worker that does not notice the signal, nor a request that is *)
(* being answered, nor a query begun before the pool was closed keeps      *)
(* run() from returning (main.go, run).                                    *)
THEOREM StoppedEnd == Spec /\ []ReadyStepsCanBeTaken => StoppingEnds
<1> SUFFICES ASSUME NEW c \in Controllers
             PROVE  Spec /\ []ReadyStepsCanBeTaken =>
                      (<>[](~RunsLocked) => (proc[c] \in Ending ~> proc[c] = "gone"))
  BY DEF StoppingEnds
<1> DEFINE Querying == request[c] = "query"
           Ends == proc[c] \in Ending
           Idle == Is(c, "closing") /\ ~UsesRuns(c)
           Free == Idle /\ ~Querying
<1>1. Ends <=> Is(c, "stopping") \/ Is(c, "joining") \/ Is(c, "closing") \/ Is(c, "crashed")
  BY DEF Ending, Is
<1>2. /\ IInv /\ Is(c, "stopping") /\ [Next]_vars =>
           \/ Is(c, "stopping")' \/ Is(c, "joining")' \/ Is(c, "crashed")' \/ Is(c, "gone")'
      /\ IInv /\ Is(c, "joining") /\ [Next]_vars =>
           \/ Is(c, "joining")' \/ Is(c, "closing")' \/ Is(c, "crashed")' \/ Is(c, "gone")'
      /\ IInv /\ Is(c, "crashed") /\ [Next]_vars => Is(c, "crashed")' \/ Is(c, "gone")'
  BY EndingStep DEF Ending, Onward, Is
<1>3. /\ IInv /\ Is(c, "closing") /\ [Next]_vars =>
           \/ Is(c, "closing")' \/ Is(c, "crashed")' \/ Is(c, "gone")'
      /\ IInv /\ Idle /\ [Next]_vars => Idle' \/ Is(c, "crashed")' \/ Is(c, "gone")'
      /\ IInv /\ Free /\ [Next]_vars => Free' \/ Is(c, "crashed")' \/ Is(c, "gone")'
  BY EndingStep DEF Ending, Onward, Is
<1>4. /\ IInv /\ Is(c, "stopping") /\ <<Main(c)>>_vars => ~Is(c, "stopping")'
      /\ IInv /\ Is(c, "joining") /\ <<Main(c)>>_vars => ~Is(c, "joining")'
      /\ IInv /\ Is(c, "closing") /\ <<Main(c)>>_vars => ~Is(c, "closing")'
      /\ IInv /\ Is(c, "crashed") /\ <<Main(c)>>_vars => ~Is(c, "crashed")'
  BY FairSteps DEF Ending, Is
<1>5. IInv /\ <<QueryEnds(c)>>_vars => ~Querying'
  BY FairSteps
<1>6. /\ ReadyStepsCanBeTaken /\ Is(c, "stopping") => MainCanStep(c)
      /\ ReadyStepsCanBeTaken /\ Is(c, "joining") => MainCanStep(c)
      /\ ReadyStepsCanBeTaken /\ Is(c, "crashed") => MainCanStep(c)
      /\ ReadyStepsCanBeTaken /\ Free => MainCanStep(c)
      /\ ReadyStepsCanBeTaken /\ Querying /\ ~RunsLocked => QueryCanEnd(c)
  BY DEF ReadyStepsCanBeTaken, Ready, Is
<1>7. Fairness => ProcessFairness(c) /\ (c \in Serving => QueryFairness(c))
  BY DEF Fairness
<1>8. Init => Requested
  BY DEF Init, Requested
<1>9. IInv => ProcInv
  BY DEF IInv
<1>10. Requested /\ Querying => c \in Serving
  BY DEF Requested
<1>11. /\ Is(c, "closing") /\ ~UsesRuns(c) => Idle
       /\ Idle => Is(c, "closing")
       /\ Idle /\ ~Querying => Free
       /\ Free => Idle
  OBVIOUS
<1> HIDE DEF Idle, Free, Querying, Ends
<1>12. Spec => []IInv /\ []Requested
  BY <1>8, <1>9, RequestedStep, Invariance, PTL DEF Spec
<1>13. Spec /\ []ReadyStepsCanBeTaken =>
         (<>[](~RunsLocked) => [](Idle => <>(Free \/ Is(c, "crashed") \/ Is(c, "gone"))))
  <2>1. CASE c \in Serving
    <3>1. Fairness => QueryFairness(c)
      BY <1>7, <2>1
    <3> QED BY <1>3, <1>5, <1>6, <1>11, <1>12, <3>1, PTL DEF Spec, QueryFairness, QueryCanEnd
  <2>2. CASE c \notin Serving
    <3>1. Requested => ~Querying
      BY <1>10, <2>2
    <3> QED BY <1>11, <1>12, <3>1, PTL
  <2> QED BY <2>1, <2>2
<1>14. Spec /\ []ReadyStepsCanBeTaken =>
         [](Is(c, "closing") => <>(Idle \/ Is(c, "crashed") \/ Is(c, "gone")))
  BY <1>3, <1>11, <1>12, TransactionEnds, PTL DEF Spec
<1>15. Spec /\ []ReadyStepsCanBeTaken => [](Free => <>(Is(c, "crashed") \/ Is(c, "gone")))
  BY <1>3, <1>4, <1>6, <1>7, <1>11, <1>12, PTL DEF Spec, ProcessFairness, MainCanStep
<1>16. Spec /\ []ReadyStepsCanBeTaken =>
         /\ [](Is(c, "stopping") => <>(Is(c, "joining") \/ Is(c, "crashed") \/ Is(c, "gone")))
         /\ [](Is(c, "joining") => <>(Is(c, "closing") \/ Is(c, "crashed") \/ Is(c, "gone")))
         /\ [](Is(c, "crashed") => <>Is(c, "gone"))
  BY <1>2, <1>4, <1>6, <1>7, <1>12, PTL DEF Spec, ProcessFairness, MainCanStep
<1>17. Spec /\ []ReadyStepsCanBeTaken => (<>[](~RunsLocked) => [](Ends => <>Is(c, "gone")))
  BY <1>1, <1>13, <1>14, <1>15, <1>16, PTL
<1>18. Spec /\ []ReadyStepsCanBeTaken => (<>[](~RunsLocked) => (Ends ~> Is(c, "gone")))
  BY <1>17, PTL
<1> QED BY <1>18 DEF Ends, Is
=============================================================================
