-------------------------- MODULE RetentionProofs ---------------------------
(***************************************************************************)
(* Theorems about Retention, for any number of collections, cleaners and   *)
(* failures, any retention and any batch size.                             *)
(***************************************************************************)
EXTENDS Retention, FiniteSetTheorems, TLAPS

(* What a run keeps of its payload: as long as there is no digest, the     *)
(* payload itself.                                                         *)
Recognisable(c) ==
  runs[c] # None =>
    /\ ingested[c] \in Payload
    /\ runs[c].raw_payload \in {ingested[c], None}
    /\ runs[c].raw_payload_sha256 \in {ingested[c], None}
    /\ runs[c].raw_payload_sha256 = None => runs[c].raw_payload = ingested[c]

(* A cleanup under way works with a cutoff that was right when it started, *)
(* and the batch it selected was and is expired: the times of a run and    *)
(* its digest never change.                                                *)
Expiring(k) ==
  LET own == cleaners[k] IN
  /\ own.phase = "idle" => own.batch = None
  /\ own.phase # "idle" => own.cutoff <= now - retention
  /\ own.batch # None => \A c \in own.batch :
       /\ runs[c] # None
       /\ own.phase = "deleting" => runs[c].observed_at < own.cutoff
       /\ own.phase = "pruning" =>
            runs[c].completed_at < own.cutoff /\ runs[c].raw_payload_sha256 # None

SafeInv == TypeOK /\ (\A c \in Collections : Recognisable(c)) /\ (\A k \in Cleaners : Expiring(k))

-----------------------------------------------------------------------------
(* The parts of the state, as the steps below use them.                    *)
LEMMA PayloadType ==
  ASSUME NEW p \in Payload, NEW d \in Payload \cup {None}
  PROVE  /\ p # None
         /\ RunOf(p, d) \in Run
         /\ RunOf(p, d) # None
         /\ RunOf(p, d).raw_payload = p
         /\ RunOf(p, d).raw_payload_sha256 = d
BY NoneAssumption DEF RunOf, Run, Payload

LEMMA RunType ==
  ASSUME TypeOK, NEW c \in Collections, runs[c] # None
  PROVE  /\ runs[c] \in Run
         /\ runs[c].completed_at \in Int /\ runs[c].observed_at \in Int
<1>1. runs[c] \in Run
  BY DEF TypeOK
<1>2. runs[c].completed_at \in Times /\ runs[c].observed_at \in Times
  BY <1>1 DEF Run
<1>3. Times \subseteq Int
  BY TimeAssumption
<1> QED BY <1>1, <1>2, <1>3

LEMMA CleanerType ==
  ASSUME TypeOK, NEW k \in Cleaners
  PROVE  /\ cleaners[k] \in Cleaner
         /\ cleaners[k].cutoff \in Int
         /\ cleaners[k].deleted \in Nat
         /\ cleaners[k].batch # None => cleaners[k].batch \subseteq Collections
         /\ cleaners[k].due.samples \subseteq Collections
         /\ cleaners[k].due.payloads \subseteq Collections
         /\ cleaners[k].phase \in {"idle", "deleting", "pruning"}
<1>1. cleaners[k] \in Cleaner
  BY DEF TypeOK
<1>2. /\ cleaners[k].cutoff \in Int
      /\ cleaners[k].deleted \in Nat
      /\ cleaners[k].batch \in (SUBSET Collections) \cup {None}
      /\ cleaners[k].due \in [samples : SUBSET Collections, payloads : SUBSET Collections]
      /\ cleaners[k].phase \in {"idle", "deleting", "pruning"}
  BY <1>1 DEF Cleaner
<1>3. /\ cleaners[k].due.samples \in SUBSET Collections
      /\ cleaners[k].due.payloads \in SUBSET Collections
  BY <1>2
<1>4. cleaners[k].batch # None => cleaners[k].batch \subseteq Collections
  BY <1>2
<1> QED BY <1>1, <1>2, <1>3, <1>4

(* The batch a statement selects, of rows with a given time.               *)
LEMMA OldestOf ==
  ASSUME NEW rows \in SUBSET Collections, NEW time, DOMAIN time = rows, NEW T \in Oldest(time)
  PROVE  /\ T \subseteq rows
         /\ Cardinality(T) \in Nat
         /\ IsShort(Cardinality(T)) => T = rows
<1>1. T \subseteq rows
  BY DEF Oldest
<1>2. IsFiniteSet(rows) /\ IsFiniteSet(T)
  BY <1>1, CollectionsAssumption, FS_Subset
<1>3. Cardinality(rows) \in Nat /\ Cardinality(T) \in Nat
  BY <1>2, FS_CardinalityType
<1>4. Cardinality(T) = IF Cardinality(rows) < batchSize THEN Cardinality(rows) ELSE batchSize
  BY DEF Oldest
<1>5. ASSUME IsShort(Cardinality(T)) PROVE T = rows
  <2>1. Cardinality(T) = Cardinality(rows)
    BY <1>3, <1>4, <1>5, BatchAssumption DEF IsShort
  <2> QED BY <1>1, <1>2, <2>1, FS_Subset
<1> QED BY <1>1, <1>3, <1>5

(* The runs after an UPDATE differ in their payloads only.                 *)
LEMMA PrunedRuns ==
  ASSUME TypeOK, NEW batch \in SUBSET Collections, \A c \in batch : runs[c] # None,
         NEW c \in Collections
  PROVE  /\ Pruned(batch) \in [Collections -> Run \cup {None}]
         /\ Pruned(batch)[c] # None <=> runs[c] # None
         /\ Pruned(batch)[c] # None =>
              /\ Pruned(batch)[c].completed_at = runs[c].completed_at
              /\ Pruned(batch)[c].observed_at = runs[c].observed_at
              /\ Pruned(batch)[c].raw_payload_sha256 = runs[c].raw_payload_sha256
              /\ Pruned(batch)[c].raw_payload = IF c \in batch THEN None ELSE runs[c].raw_payload
         /\ c \notin batch => Pruned(batch)[c] = runs[c]
<1>1. ASSUME NEW d \in Collections, runs[d] # None
      PROVE  /\ [runs[d] EXCEPT !.raw_payload = None] \in Run
             /\ [runs[d] EXCEPT !.raw_payload = None] # None
             /\ [runs[d] EXCEPT !.raw_payload = None].completed_at = runs[d].completed_at
             /\ [runs[d] EXCEPT !.raw_payload = None].observed_at = runs[d].observed_at
             /\ [runs[d] EXCEPT !.raw_payload = None].raw_payload_sha256 = runs[d].raw_payload_sha256
             /\ [runs[d] EXCEPT !.raw_payload = None].raw_payload = None
  <2>1. runs[d] \in Run
    BY <1>1, RunType
  <2>2. [runs[d] EXCEPT !.raw_payload = None] \in Run
    BY <2>1 DEF Run
  <2> QED BY <2>1, <2>2, NoneAssumption DEF Run
<1>2. Pruned(batch) \in [Collections -> Run \cup {None}]
  BY <1>1 DEF Pruned, TypeOK
<1>3. Pruned(batch)[c] = IF c \in batch THEN [runs[c] EXCEPT !.raw_payload = None] ELSE runs[c]
  BY DEF Pruned
<1> QED BY <1>1, <1>2, <1>3

-----------------------------------------------------------------------------
LEMMA NewCleanerType == NewCleaner \in Cleaner
<1>1. 0 \in Int /\ {} \in SUBSET Collections
  OBVIOUS
<1> QED BY <1>1 DEF NewCleaner, Cleaner, NothingDue

LEMMA FinishedType ==
  ASSUME NEW own \in Cleaner
  PROVE  Finished(own) \in Cleaner /\ Finished(own).phase = "idle" /\ Finished(own).batch = None
           /\ Finished(own).due = NothingDue
<1>1. own.deleted \in Nat /\ own.total_deleted_samples \in Nat
  BY DEF Cleaner
<1>2. NothingDue \in [samples : SUBSET Collections, payloads : SUBSET Collections]
  BY DEF NothingDue
<1>3. Finished(own) = [own EXCEPT !.phase = "idle",
         !.total_deleted_samples = own.total_deleted_samples + own.deleted,
         !.batch = None, !.cutoff = 0, !.deleted = 0, !.due = NothingDue]
  BY DEF Finished
<1>4. own.total_deleted_samples + own.deleted \in Nat /\ 0 \in Int /\ 0 \in Nat
  BY <1>1
<1>5. /\ "idle" \in {"idle", "deleting", "pruning"}
      /\ None \in (SUBSET Collections) \cup {None}
  OBVIOUS
<1> HIDE DEF NothingDue
<1>6. Finished(own) \in Cleaner
  BY <1>2, <1>3, <1>4, <1>5 DEF Cleaner
<1>7. /\ Finished(own).phase = "idle" /\ Finished(own).batch = None
      /\ Finished(own).due = NothingDue
  BY <1>3, SMT DEF Cleaner
<1> QED BY <1>6, <1>7

LEMMA InitSafe == Init => SafeInv
<1> SUFFICES ASSUME Init PROVE SafeInv
  OBVIOUS
<1>1. \A c \in Collections : ingested[c] # None =>
        /\ ingested[c] \in Payload
        /\ RunOf(ingested[c], None) \in Run /\ RunOf(ingested[c], None) # None
        /\ RunOf(ingested[c], None).raw_payload = ingested[c]
        /\ RunOf(ingested[c], None).raw_payload_sha256 = None
  BY PayloadType DEF Init
<1>2. TypeOK
  BY <1>1, NewCleanerType, TimeAssumption DEF Init, TypeOK
<1>3. \A c \in Collections : Recognisable(c)
  BY <1>1 DEF Init, Recognisable
<1>4. \A k \in Cleaners : Expiring(k)
  BY DEF Init, Expiring, NewCleaner
<1> QED BY <1>2, <1>3, <1>4 DEF SafeInv

LEMMA IngestSafe ==
  ASSUME SafeInv, NEW c \in Collections, NEW p \in Payload, Ingest(c, p)
  PROVE  SafeInv'
<1>1. RunOf(p, p) \in Run /\ RunOf(p, p) # None /\ RunOf(p, p).raw_payload = p
      /\ RunOf(p, p).raw_payload_sha256 = p /\ p # None
  BY PayloadType
<1>2. runs \in [Collections -> Run \cup {None}]
  BY DEF SafeInv, TypeOK
<1>3. runs'[c] = RunOf(p, p) /\ \A d \in Collections \ {c} : runs'[d] = runs[d]
  BY <1>2 DEF Ingest
<1>4. TypeOK'
  BY <1>1, <1>3 DEF Ingest, SafeInv, TypeOK
<1>5. ASSUME NEW d \in Collections PROVE Recognisable(d)'
  <2>1. CASE d = c
    BY <1>1, <1>3, <2>1 DEF Ingest, SafeInv, TypeOK, Recognisable
  <2>2. CASE d # c
    BY <1>3, <2>2 DEF Ingest, SafeInv, TypeOK, Recognisable
  <2> QED BY <2>1, <2>2
<1>6. ASSUME NEW k \in Cleaners PROVE Expiring(k)'
  <2>1. cleaners' = cleaners /\ now' = now
    BY DEF Ingest
  <2>2. cleaners[k].batch # None =>
          cleaners[k].batch \subseteq Collections /\ \A d \in cleaners[k].batch : runs[d] # None
    BY CleanerType DEF SafeInv, Expiring
  <2>3. cleaners[k].batch # None => \A d \in cleaners[k].batch : runs'[d] = runs[d]
    BY <1>3, <2>2 DEF Ingest
  <2> QED BY <2>1, <2>3 DEF SafeInv, Expiring
<1> QED BY <1>4, <1>5, <1>6 DEF SafeInv

(* A step of cleaner k that does not touch the tables.                     *)
LEMMA OwnStep ==
  ASSUME SafeInv, NEW k \in Cleaners, UNCHANGED <<now, runs, samples, ingested>>,
         failures' \in 0 .. MaxFailures,
         cleaners' \in [Cleaners -> Cleaner], Expiring(k)',
         \A j \in Cleaners \ {k} : /\ cleaners'[j].phase = cleaners[j].phase
                                   /\ cleaners'[j].cutoff = cleaners[j].cutoff
                                   /\ cleaners'[j].batch = cleaners[j].batch
  PROVE  SafeInv'
<1>1. TypeOK'
  BY DEF SafeInv, TypeOK
<1>2. \A c \in Collections : Recognisable(c)'
  BY DEF SafeInv, Recognisable
<1>3. \A j \in Cleaners \ {k} : Expiring(j)'
  BY DEF SafeInv, Expiring
<1> QED BY <1>1, <1>2, <1>3 DEF SafeInv

LEMMA StartSafe ==
  ASSUME SafeInv, NEW k \in Cleaners, Start(k)
  PROVE  SafeInv'
<1> DEFINE found == IF \A j \in Cleaners : cleaners[j].phase = "idle"
                    THEN [samples |-> Expired(Cutoff(now)), payloads |-> Prunable(Cutoff(now))]
                    ELSE NothingDue
           Due == [samples : SUBSET Collections, payloads : SUBSET Collections]
<1>1. Expired(Cutoff(now)) \in SUBSET Collections /\ Prunable(Cutoff(now)) \in SUBSET Collections
  BY DEF Expired, Prunable, SafeInv, TypeOK
<1>2. found \in Due /\ NothingDue \in Due
  BY <1>1 DEF NothingDue
<1>3. Cutoff(now) \in Int /\ Cutoff(now) = now - retention
  BY RetentionAssumption DEF Cutoff, SafeInv, TypeOK
<1>4. \A j \in Cleaners : cleaners[j] \in Cleaner
  BY CleanerType DEF SafeInv
<1> HIDE DEF found
<1>5. cleaners' = [j \in Cleaners |->
        IF j = k THEN [cleaners[k] EXCEPT !.phase = "deleting", !.cutoff = Cutoff(now), !.due = found]
        ELSE [cleaners[j] EXCEPT !.due = NothingDue]]
  BY DEF Start, found
<1>6. ASSUME NEW j \in Cleaners
      PROVE  /\ [cleaners[j] EXCEPT !.phase = "deleting", !.cutoff = Cutoff(now), !.due = found] \in Cleaner
             /\ [cleaners[j] EXCEPT !.due = NothingDue] \in Cleaner
  BY <1>2, <1>3, <1>4 DEF Cleaner
<1>7. cleaners' \in [Cleaners -> Cleaner]
  BY <1>5, <1>6
<1>8. /\ cleaners'[k].phase = "deleting" /\ cleaners'[k].cutoff = Cutoff(now)
      /\ cleaners'[k].batch = cleaners[k].batch
  BY <1>4, <1>5 DEF Cleaner
<1>9. cleaners[k].batch = None
  BY DEF Start, SafeInv, Expiring
<1>10. Expiring(k)'
  <2>1. Cutoff(now) <= now - retention
    BY <1>3
  <2> QED BY <1>8, <1>9, <2>1 DEF Start, Expiring
<1>11. \A j \in Cleaners \ {k} : /\ cleaners'[j].phase = cleaners[j].phase
                                 /\ cleaners'[j].cutoff = cleaners[j].cutoff
                                 /\ cleaners'[j].batch = cleaners[j].batch
  BY <1>4, <1>5 DEF Cleaner
<1> QED BY <1>7, <1>10, <1>11, OwnStep DEF Start, SafeInv, TypeOK

(* Cleaner k's batch once a statement has selected it.                     *)
LEMMA SelectSafe ==
  ASSUME SafeInv, NEW k \in Cleaners, Select(k)
  PROVE  /\ SafeInv'
         /\ \E T \in SUBSET Collections :
              /\ cleaners' = [cleaners EXCEPT ![k] = [@ EXCEPT !.batch = T]]
              /\ cleaners[k].phase = "deleting" =>
                   /\ T \subseteq samples
                   /\ IsShort(Cardinality(T)) => T = Expired(cleaners[k].cutoff)
              /\ cleaners[k].phase = "pruning" =>
                   /\ T \subseteq Prunable(cleaners[k].cutoff)
                   /\ IsShort(Cardinality(T)) => T = Prunable(cleaners[k].cutoff)
<1> DEFINE own == cleaners[k]
<1>1. own \in Cleaner /\ own.phase \in {"deleting", "pruning"}
  BY CleanerType DEF SafeInv, Select
<1>2. Expired(own.cutoff) \in SUBSET Collections /\ Prunable(own.cutoff) \in SUBSET Collections
      /\ Expired(own.cutoff) \subseteq samples
  BY DEF Expired, Prunable, SafeInv, TypeOK
<1>3. PICK T \in IF own.phase = "deleting" THEN Oldest(ObservedAt(Expired(own.cutoff)))
                 ELSE Oldest(CompletedAt(Prunable(own.cutoff))) :
        cleaners' = [cleaners EXCEPT ![k].batch = T]
  BY DEF Select
<1>4. own.phase = "deleting" =>
        T \subseteq Expired(own.cutoff) /\ (IsShort(Cardinality(T)) => T = Expired(own.cutoff))
  BY <1>2, <1>3, OldestOf DEF ObservedAt
<1>5. own.phase = "pruning" =>
        T \subseteq Prunable(own.cutoff) /\ (IsShort(Cardinality(T)) => T = Prunable(own.cutoff))
  BY <1>2, <1>3, OldestOf DEF CompletedAt
<1>6. T \in SUBSET Collections
  BY <1>1, <1>2, <1>4, <1>5
<1>7. cleaners' = [cleaners EXCEPT ![k] = [@ EXCEPT !.batch = T]]
  BY <1>3
<1>8. [own EXCEPT !.batch = T] \in Cleaner
  BY <1>1, <1>6 DEF Cleaner
<1>9. cleaners \in [Cleaners -> Cleaner]
  BY DEF SafeInv, TypeOK
<1>10. /\ cleaners'[k].batch = T /\ cleaners'[k].phase = own.phase /\ cleaners'[k].cutoff = own.cutoff
       /\ cleaners' \in [Cleaners -> Cleaner]
       /\ \A j \in Cleaners \ {k} : cleaners'[j] = cleaners[j]
  BY <1>1, <1>7, <1>8, <1>9 DEF Cleaner
<1>11. ASSUME NEW c \in T
       PROVE  /\ runs[c] # None
              /\ own.phase = "deleting" => runs[c].observed_at < own.cutoff
              /\ own.phase = "pruning" =>
                   runs[c].completed_at < own.cutoff /\ runs[c].raw_payload_sha256 # None
  BY <1>1, <1>4, <1>5 DEF Expired, Prunable, SafeInv, TypeOK
<1>12. Expiring(k)'
  <2>1. own.cutoff <= now - retention /\ now' = now /\ runs' = runs
    BY <1>1 DEF SafeInv, Expiring, Select
  <2> QED BY <1>1, <1>10, <1>11, <2>1 DEF Expiring
<1>13. SafeInv'
  BY <1>10, <1>12, OwnStep DEF Select, SafeInv, TypeOK
<1> QED BY <1>2, <1>4, <1>5, <1>6, <1>7, <1>13

(* Deleting samples and updating runs of k's batch.                        *)
LEMMA TablesChange ==
  ASSUME SafeInv, NEW k \in Cleaners, cleaners[k].batch # None,
         UNCHANGED <<now, ingested>>, failures' \in 0 .. MaxFailures,
         \/ UNCHANGED <<runs, samples>>
         \/ samples' = samples \ cleaners[k].batch /\ UNCHANGED runs
         \/ /\ cleaners[k].phase = "pruning" /\ runs' = Pruned(cleaners[k].batch)
            /\ UNCHANGED samples,
         NEW next \in Cleaner, next.batch = None,
         next.phase # "idle" => next.cutoff = cleaners[k].cutoff /\ cleaners[k].phase # "idle",
         cleaners' = [cleaners EXCEPT ![k] = next]
  PROVE  SafeInv'
<1> DEFINE batch == cleaners[k].batch
<1>1. batch \in SUBSET Collections /\ \A c \in batch : runs[c] # None
  BY CleanerType DEF SafeInv, Expiring
<1>2. /\ runs' \in [Collections -> Run \cup {None}]
      /\ \A c \in Collections : runs'[c] # None <=> runs[c] # None
      /\ \A c \in Collections : runs'[c] # None =>
           /\ runs'[c].completed_at = runs[c].completed_at
           /\ runs'[c].observed_at = runs[c].observed_at
           /\ runs'[c].raw_payload_sha256 = runs[c].raw_payload_sha256
           /\ \/ runs'[c].raw_payload = runs[c].raw_payload
              \/ runs'[c].raw_payload = None /\ runs[c].raw_payload_sha256 # None
  <2>1. CASE UNCHANGED runs
    BY <2>1 DEF SafeInv, TypeOK
  <2>2. CASE cleaners[k].phase = "pruning" /\ runs' = Pruned(batch)
    <3>1. \A c \in batch : runs[c].raw_payload_sha256 # None
      BY <2>2 DEF SafeInv, Expiring
    <3>2. runs' \in [Collections -> Run \cup {None}]
      BY <2>2, <1>1, PrunedRuns DEF SafeInv, Pruned
    <3>3. ASSUME NEW c \in Collections
          PROVE  /\ runs'[c] # None <=> runs[c] # None
                 /\ runs'[c] # None =>
                      /\ runs'[c].completed_at = runs[c].completed_at
                      /\ runs'[c].observed_at = runs[c].observed_at
                      /\ runs'[c].raw_payload_sha256 = runs[c].raw_payload_sha256
                      /\ runs'[c].raw_payload =
                           IF c \in batch THEN None ELSE runs[c].raw_payload
      BY <1>1, <2>2, PrunedRuns DEF SafeInv
    <3> QED BY <3>1, <3>2, <3>3
  <2> QED BY <2>1, <2>2
<1>3. samples' \subseteq samples
  OBVIOUS
<1>4. cleaners \in [Cleaners -> Cleaner] /\ samples \subseteq {c \in Collections : runs[c] # None}
  BY DEF SafeInv, TypeOK
<1>5. TypeOK'
  <2>1. cleaners' \in [Cleaners -> Cleaner]
    BY <1>4
  <2>2. samples' \subseteq {c \in Collections : runs'[c] # None}
    BY <1>2, <1>3, <1>4
  <2> QED BY <1>2, <2>1, <2>2 DEF SafeInv, TypeOK
<1>6. ASSUME NEW c \in Collections PROVE Recognisable(c)'
  BY <1>2 DEF SafeInv, Recognisable
<1>7. ASSUME NEW j \in Cleaners PROVE Expiring(j)'
  <2>1. CASE j = k
    <3>1. cleaners'[k] = next
      BY <1>4
    <3> QED BY <2>1, <3>1 DEF SafeInv, Expiring
  <2>2. CASE j # k
    <3>1. cleaners'[j] = cleaners[j]
      BY <1>4, <2>2
    <3>2. cleaners[j].batch # None => cleaners[j].batch \subseteq Collections
      BY CleanerType DEF SafeInv
    <3> QED BY <1>2, <3>1, <3>2 DEF SafeInv, Expiring
  <2> QED BY <2>1, <2>2
<1> QED BY <1>5, <1>6, <1>7 DEF SafeInv

LEMMA StatementSafe ==
  ASSUME SafeInv, NEW k \in Cleaners,
         DeleteMetricSamplesBefore(k) \/ PruneCollectionPayloadsBefore(k) \/ Fail(k)
  PROVE  SafeInv'
<1> DEFINE own == cleaners[k]
<1>1. own \in Cleaner /\ own.deleted \in Nat
  BY CleanerType DEF SafeInv
<1>2. failures \in 0 .. MaxFailures
  BY DEF SafeInv, TypeOK
<1>3. CASE DeleteMetricSamplesBefore(k)
  <2> DEFINE count == Cardinality(own.batch \cap samples)
             phase == IF IsShort(count) THEN "pruning" ELSE "deleting"
             next == [own EXCEPT !.batch = None, !.deleted = own.deleted + count, !.phase = phase]
  <2>1. IsFiniteSet(own.batch \cap samples)
    BY CollectionsAssumption, FS_Subset DEF SafeInv, TypeOK
  <2>2. own.deleted + count \in Nat
    BY <1>1, <2>1, FS_CardinalityType
  <2>3. phase \in {"idle", "deleting", "pruning"}
    OBVIOUS
  <2>4. cleaners' = [cleaners EXCEPT ![k] = next]
    BY <1>3 DEF DeleteMetricSamplesBefore
  <2> HIDE DEF count, phase
  <2>5. next \in Cleaner /\ next.batch = None /\ next.cutoff = own.cutoff
    BY <1>1, <2>2, <2>3 DEF Cleaner
  <2>6. own.phase = "deleting" /\ own.batch # None /\ samples' = samples \ own.batch
        /\ UNCHANGED <<now, runs, ingested, failures>>
    BY <1>3 DEF DeleteMetricSamplesBefore
  <2> HIDE DEF next
  <2> QED BY <1>2, <2>4, <2>5, <2>6, TablesChange
<1>4. CASE PruneCollectionPayloadsBefore(k)
  <2> DEFINE next == IF IsShort(Cardinality(own.batch)) THEN Finished(own)
                     ELSE [own EXCEPT !.batch = None]
  <2>1. next \in Cleaner /\ next.batch = None /\ (next.phase # "idle" => next.cutoff = own.cutoff)
    BY <1>1, FinishedType DEF Cleaner
  <2>2. own.phase = "pruning" /\ own.batch # None /\ runs' = Pruned(own.batch)
        /\ cleaners' = [cleaners EXCEPT ![k] = next]
        /\ UNCHANGED <<now, samples, ingested, failures>>
    BY <1>4 DEF PruneCollectionPayloadsBefore
  <2> HIDE DEF next
  <2> QED BY <1>2, <2>1, <2>2, TablesChange
<1>5. CASE Fail(k)
  <2>1. failures' \in 0 .. MaxFailures
    BY <1>2, <1>5, TimeAssumption DEF Fail
  <2>2. Finished(own) \in Cleaner /\ Finished(own).batch = None /\ Finished(own).phase = "idle"
    BY <1>1, FinishedType
  <2>3. own.batch # None /\ cleaners' = [cleaners EXCEPT ![k] = Finished(own)]
        /\ UNCHANGED <<now, ingested>>
        /\ \/ UNCHANGED <<runs, samples>>
           \/ samples' = samples \ own.batch /\ UNCHANGED runs
           \/ own.phase = "pruning" /\ runs' = Pruned(own.batch) /\ UNCHANGED samples
    BY <1>5 DEF Fail
  <2> QED BY <2>1, <2>2, <2>3, TablesChange
<1> QED BY <1>3, <1>4, <1>5

LEMMA RestartSafe ==
  ASSUME SafeInv, NEW k \in Cleaners, Restart(k)
  PROVE  SafeInv'
<1>1. cleaners \in [Cleaners -> Cleaner] /\ failures' \in 0 .. MaxFailures
  BY TimeAssumption DEF Restart, SafeInv, TypeOK
<1>2. /\ cleaners'[k] = NewCleaner /\ cleaners' \in [Cleaners -> Cleaner]
      /\ \A j \in Cleaners \ {k} : cleaners'[j] = cleaners[j]
  BY <1>1, NewCleanerType DEF Restart
<1>3. Expiring(k)'
  BY <1>2 DEF Expiring, NewCleaner
<1> QED BY <1>1, <1>2, <1>3, OwnStep DEF Restart

LEMMA TickSafe == SafeInv /\ Tick => SafeInv'
<1> SUFFICES ASSUME SafeInv, Tick PROVE SafeInv'
  OBVIOUS
<1>1. now \in Nat /\ now' = now + 1 /\ now' \in 0 .. MaxNow
  BY TimeAssumption DEF SafeInv, TypeOK, Tick
<1>2. TypeOK'
  BY <1>1 DEF SafeInv, TypeOK, Tick
<1>3. \A c \in Collections : Recognisable(c)'
  BY DEF SafeInv, Tick, Recognisable
<1>4. ASSUME NEW k \in Cleaners PROVE Expiring(k)'
  <2>1. cleaners[k].cutoff \in Int
    BY CleanerType DEF SafeInv
  <2>2. cleaners[k].cutoff <= now - retention => cleaners[k].cutoff <= now' - retention
    BY <1>1, <2>1, RetentionAssumption
  <2> QED BY <2>2 DEF SafeInv, Expiring, Tick
<1> QED BY <1>2, <1>3, <1>4 DEF SafeInv

LEMMA StepSafe == SafeInv /\ [Next]_vars => SafeInv'
<1> SUFFICES ASSUME SafeInv, [Next]_vars PROVE SafeInv'
  OBVIOUS
<1>1. CASE Next
  BY <1>1, IngestSafe, StartSafe, SelectSafe, StatementSafe, RestartSafe, TickSafe
     DEF Next, CleanerStep
<1>2. CASE UNCHANGED vars
  BY <1>2 DEF vars, SafeInv, TypeOK, Recognisable, Expiring
<1> QED BY <1>1, <1>2

LEMMA Safe == Spec => []SafeInv
BY InitSafe, StepSafe, PTL DEF Spec

(* Pruning never costs a run its identity: a delivery of the same payload  *)
(* is a duplicate and one of another payload is not (ingest/store.go),     *)
(* since only runs with a digest are pruned (retention/cleaner.go).        *)
THEOREM StillRecognised == Spec => []DuplicatesAreRecognised
<1>1. SafeInv => DuplicatesAreRecognised
  BY NoneAssumption DEF SafeInv, Recognisable, DuplicatesAreRecognised, Matches
<1> QED BY <1>1, Safe, PTL

(* However many cleaners overlap, fail and restart, and however late a     *)
(* statement runs, it only takes what is out of retention (cleaner.go).    *)
THEOREM OnlyTheExpired == Spec => NothingYoungIsLost
<1> DEFINE Young == /\ \A c \in samples \ samples' : runs[c].observed_at < now - retention
                    /\ \A c \in Collections :
                         runs[c] # None /\ runs'[c] # runs[c] =>
                           runs[c].completed_at < now - retention
<1>1. ASSUME SafeInv, Next PROVE Young
  <2> USE <1>1
  <2>1. ASSUME NEW k \in Cleaners, cleaners[k].batch # None, NEW c \in cleaners[k].batch
        PROVE  /\ c \in Collections /\ runs[c] # None
               /\ cleaners[k].phase = "deleting" => runs[c].observed_at < now - retention
               /\ cleaners[k].phase = "pruning" => runs[c].completed_at < now - retention
    <3>1. c \in Collections /\ cleaners[k].cutoff \in Int
      BY <2>1, CleanerType DEF SafeInv
    <3>2. runs[c] # None
      BY <2>1 DEF SafeInv, Expiring
    <3>3. runs[c].observed_at \in Int /\ runs[c].completed_at \in Int
      BY <3>1, <3>2, RunType DEF SafeInv
    <3>4. now \in Int /\ retention \in Int
      BY RetentionAssumption DEF SafeInv, TypeOK
    <3> QED BY <2>1, <3>1, <3>2, <3>3, <3>4 DEF SafeInv, Expiring
  <2>2. CASE UNCHANGED <<runs, samples>>
    BY <2>2
  <2>3. ASSUME NEW c \in Collections, NEW p \in Payload, Ingest(c, p) PROVE Young
    BY <2>3 DEF Ingest, SafeInv, TypeOK
  <2>4. ASSUME NEW k \in Cleaners, DeleteMetricSamplesBefore(k) PROVE Young
    BY <2>1, <2>4 DEF DeleteMetricSamplesBefore
  <2>5. ASSUME NEW k \in Cleaners, PruneCollectionPayloadsBefore(k) PROVE Young
    BY <2>1, <2>5 DEF PruneCollectionPayloadsBefore, Pruned
  <2>6. ASSUME NEW k \in Cleaners, Fail(k) PROVE Young
    BY <2>1, <2>6 DEF Fail, Pruned
  <2> QED
    BY <2>2, <2>3, <2>4, <2>5, <2>6 DEF Next, CleanerStep, Start, Select, Restart, Tick
<1>2. SafeInv /\ [Next]_vars => [Young]_vars
  BY <1>1
<1> QED BY <1>2, Safe, PTL DEF Spec, NothingYoungIsLost

-----------------------------------------------------------------------------
(* A cleanup that is alone is thorough: its first loop ends with a batch   *)
(* that held all it had left to delete, and so does its second.            *)
Thorough(k) ==
  LET own == cleaners[k] IN
  own.due # NothingDue =>
    /\ own.phase # "idle"
    /\ \A j \in Cleaners \ {k} : cleaners[j].phase = "idle"
    /\ \A c \in own.due.samples : runs[c] # None /\ runs[c].observed_at < own.cutoff
    /\ \A c \in own.due.payloads :
         runs[c] # None /\ runs[c].completed_at < own.cutoff /\ runs[c].raw_payload_sha256 # None
    /\ own.phase = "deleting" /\ own.batch # None =>
         /\ own.batch \subseteq samples
         /\ IsShort(Cardinality(own.batch)) => own.due.samples \cap samples \subseteq own.batch
    /\ own.phase = "pruning" => own.due.samples \cap samples = {}
    /\ own.phase = "pruning" /\ own.batch # None /\ IsShort(Cardinality(own.batch)) =>
         \A c \in own.due.payloads : c \in own.batch \/ runs[c].raw_payload = None

ThoroughInv == SafeInv /\ \A k \in Cleaners : Thorough(k)

LEMMA InitThorough == Init => ThoroughInv
BY InitSafe DEF Init, ThoroughInv, Thorough, NewCleaner

LEMMA IngestThorough ==
  ASSUME ThoroughInv, NEW c \in Collections, NEW p \in Payload, Ingest(c, p),
         NEW k \in Cleaners
  PROVE  Thorough(k)'
<1> DEFINE own == cleaners[k]
<1> SUFFICES ASSUME own.due # NothingDue PROVE Thorough(k)'
  BY DEF Ingest, Thorough
<1>1. Thorough(k) /\ SafeInv
  BY DEF ThoroughInv
<1>2. own.due.samples \subseteq Collections /\ own.due.payloads \subseteq Collections
  BY <1>1, CleanerType DEF SafeInv
<1>3. c \notin own.due.samples /\ c \notin own.due.payloads
  BY <1>1 DEF Ingest, Thorough
<1>4. \A d \in own.due.samples \cup own.due.payloads : runs'[d] = runs[d]
  BY <1>1, <1>2, <1>3 DEF Ingest, SafeInv, TypeOK
<1>5. own.due.samples \cap samples' = own.due.samples \cap samples /\ samples \subseteq samples'
  BY <1>3 DEF Ingest
<1>6. cleaners' = cleaners
  BY DEF Ingest
<1> QED BY <1>1, <1>4, <1>5, <1>6 DEF Thorough

LEMMA StartThorough ==
  ASSUME ThoroughInv, NEW j \in Cleaners, Start(j), NEW k \in Cleaners
  PROVE  Thorough(k)'
<1> DEFINE quiet == \A i \in Cleaners : cleaners[i].phase = "idle"
           found == IF quiet
                    THEN [samples |-> Expired(Cutoff(now)), payloads |-> Prunable(Cutoff(now))]
                    ELSE NothingDue
<1>1. \A i \in Cleaners : cleaners[i] \in Cleaner
  BY CleanerType DEF ThoroughInv, SafeInv
<1>2. cleaners' = [i \in Cleaners |->
        IF i = j THEN [cleaners[j] EXCEPT !.phase = "deleting", !.cutoff = Cutoff(now), !.due = found]
        ELSE [cleaners[i] EXCEPT !.due = NothingDue]]
  BY DEF Start
<1>3. found # NothingDue =>
        quiet /\ found.samples = Expired(Cutoff(now)) /\ found.payloads = Prunable(Cutoff(now))
  OBVIOUS
<1> HIDE DEF found
<1>4. /\ cleaners'[j].phase = "deleting" /\ cleaners'[j].cutoff = Cutoff(now)
      /\ cleaners'[j].due = found /\ cleaners'[j].batch = cleaners[j].batch
  BY <1>1, <1>2 DEF Cleaner
<1>5. \A i \in Cleaners \ {j} :
        cleaners'[i].due = NothingDue /\ cleaners'[i].phase = cleaners[i].phase
  BY <1>1, <1>2 DEF Cleaner
<1>6. cleaners[j].batch = None
  BY DEF Start, ThoroughInv, SafeInv, Expiring
<1>7. runs' = runs
  BY DEF Start
<1>8. CASE k = j
  <2>1. \A c \in Expired(Cutoff(now)) : runs[c] # None /\ runs[c].observed_at < Cutoff(now)
    BY DEF Expired, ThoroughInv, SafeInv, TypeOK
  <2>2. \A c \in Prunable(Cutoff(now)) :
          runs[c] # None /\ runs[c].completed_at < Cutoff(now) /\ runs[c].raw_payload_sha256 # None
    BY DEF Prunable
  <2> QED BY <1>3, <1>4, <1>5, <1>6, <1>7, <1>8, <2>1, <2>2 DEF Thorough
<1>9. CASE k # j
  BY <1>5, <1>9 DEF Thorough
<1> QED BY <1>8, <1>9

(* While k is alone, only k has a batch.                                   *)
LEMMA Alone ==
  ASSUME ThoroughInv, NEW k \in Cleaners, cleaners[k].due # NothingDue, NEW j \in Cleaners
  PROVE  cleaners[j].phase # "idle" \/ cleaners[j].batch # None => j = k
BY DEF ThoroughInv, Thorough, SafeInv, Expiring

LEMMA SelectThorough ==
  ASSUME ThoroughInv, NEW j \in Cleaners, Select(j), NEW k \in Cleaners
  PROVE  Thorough(k)'
<1>1. cleaners \in [Cleaners -> Cleaner] /\ cleaners[j] \in Cleaner
  BY DEF ThoroughInv, SafeInv, TypeOK
<1>2. PICK T \in SUBSET Collections :
        /\ cleaners' = [cleaners EXCEPT ![j] = [@ EXCEPT !.batch = T]]
        /\ cleaners[j].phase = "deleting" =>
             /\ T \subseteq samples
             /\ IsShort(Cardinality(T)) => T = Expired(cleaners[j].cutoff)
        /\ cleaners[j].phase = "pruning" =>
             /\ T \subseteq Prunable(cleaners[j].cutoff)
             /\ IsShort(Cardinality(T)) => T = Prunable(cleaners[j].cutoff)
  BY SelectSafe DEF ThoroughInv
<1>3. /\ cleaners'[j].batch = T
      /\ cleaners'[j].phase = cleaners[j].phase /\ cleaners'[j].cutoff = cleaners[j].cutoff
      /\ cleaners'[j].due = cleaners[j].due
      /\ \A i \in Cleaners \ {j} : cleaners'[i] = cleaners[i]
  BY <1>1, <1>2 DEF Cleaner
<1>4. cleaners[j].phase # "idle" /\ runs' = runs /\ samples' = samples
  BY DEF Select
<1>5. CASE k = j
  <2> SUFFICES ASSUME cleaners[k].due # NothingDue PROVE Thorough(k)'
    BY <1>3, <1>5 DEF Thorough
  <2>1. Thorough(k)
    BY DEF ThoroughInv
  <2>2. cleaners[k].due.samples \cap samples \subseteq Expired(cleaners[k].cutoff)
    BY <2>1 DEF Thorough, Expired
  <2>3. \A c \in cleaners[k].due.payloads :
          c \in Prunable(cleaners[k].cutoff) \/ runs[c].raw_payload = None
    <3>1. cleaners[k].due.payloads \subseteq Collections
      BY CleanerType DEF ThoroughInv, SafeInv
    <3> QED BY <2>1, <3>1 DEF Thorough, Prunable
  <2> QED BY <1>2, <1>3, <1>4, <1>5, <2>1, <2>2, <2>3 DEF Thorough
<1>6. CASE k # j
  <2>1. cleaners[k].due = NothingDue
    BY <1>4, <1>6, Alone
  <2> QED BY <1>3, <1>6, <2>1 DEF Thorough
<1> QED BY <1>5, <1>6

LEMMA DeleteThorough ==
  ASSUME ThoroughInv, NEW j \in Cleaners, DeleteMetricSamplesBefore(j), NEW k \in Cleaners
  PROVE  Thorough(k)'
<1> DEFINE own == cleaners[j]
           count == Cardinality(own.batch \cap samples)
           phase == IF IsShort(count) THEN "pruning" ELSE "deleting"
<1>1. cleaners \in [Cleaners -> Cleaner] /\ own \in Cleaner
  BY DEF ThoroughInv, SafeInv, TypeOK
<1>2. /\ own.phase = "deleting" /\ own.batch # None
      /\ samples' = samples \ own.batch /\ runs' = runs
  BY DEF DeleteMetricSamplesBefore
<1>3. cleaners' = [cleaners EXCEPT ![j] =
        [own EXCEPT !.batch = None, !.deleted = own.deleted + count, !.phase = phase]]
  BY DEF DeleteMetricSamplesBefore
<1>4. phase \in {"pruning", "deleting"} /\ (phase = "pruning" => IsShort(count))
  OBVIOUS
<1> HIDE DEF phase
<1>5. /\ cleaners'[j].batch = None /\ cleaners'[j].phase = phase
      /\ cleaners'[j].cutoff = own.cutoff /\ cleaners'[j].due = own.due
      /\ \A i \in Cleaners \ {j} : cleaners'[i] = cleaners[i]
  BY <1>1, <1>3 DEF Cleaner
<1>6. CASE k = j
  <2> SUFFICES ASSUME own.due # NothingDue PROVE Thorough(k)'
    BY <1>5, <1>6 DEF Thorough
  <2>1. Thorough(j)
    BY DEF ThoroughInv
  <2>2. phase = "pruning" => own.due.samples \cap samples' = {}
    <3>1. own.batch \cap samples = own.batch
      BY <1>2, <2>1 DEF Thorough
    <3> QED BY <1>2, <1>4, <2>1, <3>1 DEF Thorough
  <2> QED BY <1>2, <1>4, <1>5, <1>6, <2>1, <2>2 DEF Thorough
<1>7. CASE k # j
  <2>1. cleaners[k].due = NothingDue
    BY <1>2, <1>7, Alone
  <2> QED BY <1>5, <1>7, <2>1 DEF Thorough
<1> QED BY <1>6, <1>7

LEMMA PruneThorough ==
  ASSUME ThoroughInv, NEW j \in Cleaners, PruneCollectionPayloadsBefore(j), NEW k \in Cleaners
  PROVE  Thorough(k)'
<1> DEFINE own == cleaners[j]
           short == IsShort(Cardinality(own.batch))
<1>1. cleaners \in [Cleaners -> Cleaner] /\ own \in Cleaner
  BY DEF ThoroughInv, SafeInv, TypeOK
<1>2. /\ own.phase = "pruning" /\ own.batch # None
      /\ runs' = Pruned(own.batch) /\ samples' = samples
  BY DEF PruneCollectionPayloadsBefore
<1>3. cleaners' = [cleaners EXCEPT ![j] = IF short THEN Finished(own) ELSE [own EXCEPT !.batch = None]]
  BY DEF PruneCollectionPayloadsBefore
<1>4. /\ short => cleaners'[j].due = NothingDue
      /\ ~short => /\ cleaners'[j].batch = None /\ cleaners'[j].phase = own.phase
                   /\ cleaners'[j].cutoff = own.cutoff /\ cleaners'[j].due = own.due
      /\ \A i \in Cleaners \ {j} : cleaners'[i] = cleaners[i]
  BY <1>1, <1>3, FinishedType DEF Cleaner
<1>5. CASE k = j /\ short
  BY <1>4, <1>5 DEF Thorough
<1>6. CASE k = j /\ ~short
  <2> SUFFICES ASSUME own.due # NothingDue PROVE Thorough(k)'
    BY <1>4, <1>6 DEF Thorough
  <2>1. Thorough(j)
    BY DEF ThoroughInv
  <2>2. /\ own.batch \in SUBSET Collections /\ \A c \in own.batch : runs[c] # None
        /\ own.due.samples \subseteq Collections /\ own.due.payloads \subseteq Collections
    BY <1>2, CleanerType DEF ThoroughInv, SafeInv, Expiring
  <2>3. \A c \in Collections : runs[c] # None =>
          /\ runs'[c] # None /\ runs'[c].completed_at = runs[c].completed_at
          /\ runs'[c].observed_at = runs[c].observed_at
          /\ runs'[c].raw_payload_sha256 = runs[c].raw_payload_sha256
    BY <1>2, <2>2, PrunedRuns DEF ThoroughInv, SafeInv
  <2> QED BY <1>2, <1>4, <1>6, <2>1, <2>2, <2>3 DEF Thorough
<1>7. CASE k # j
  <2>1. cleaners[k].due = NothingDue
    BY <1>2, <1>7, Alone
  <2> QED BY <1>4, <1>7, <2>1 DEF Thorough
<1> QED BY <1>5, <1>6, <1>7

LEMMA EndThorough ==
  ASSUME ThoroughInv, NEW j \in Cleaners, Fail(j) \/ Restart(j), NEW k \in Cleaners
  PROVE  Thorough(k)'
<1>1. cleaners \in [Cleaners -> Cleaner] /\ cleaners[j] \in Cleaner
  BY DEF ThoroughInv, SafeInv, TypeOK
<1>2. /\ cleaners'[j].due = NothingDue /\ cleaners'[j].phase = "idle"
      /\ \A i \in Cleaners \ {j} : cleaners'[i] = cleaners[i]
  BY <1>1, FinishedType DEF Fail, Restart, NewCleaner
<1>3. CASE k = j
  BY <1>2, <1>3 DEF Thorough
<1>4. CASE k # j /\ cleaners[k].due = NothingDue
  BY <1>2, <1>4 DEF Thorough
<1>5. CASE k # j /\ cleaners[k].due # NothingDue
  <2>1. runs' = runs /\ samples' = samples
    BY <1>5, Alone DEF Fail, Restart
  <2> QED BY <1>2, <1>5, <2>1 DEF ThoroughInv, Thorough
<1> QED BY <1>3, <1>4, <1>5

LEMMA StepThorough == ThoroughInv /\ [Next]_vars => ThoroughInv'
<1> SUFFICES ASSUME ThoroughInv, [Next]_vars PROVE ThoroughInv'
  OBVIOUS
<1>1. SafeInv'
  BY StepSafe DEF ThoroughInv
<1>2. ASSUME NEW k \in Cleaners PROVE Thorough(k)'
  <2>1. CASE Tick \/ UNCHANGED vars
    BY <2>1 DEF Tick, vars, ThoroughInv, Thorough
  <2>2. CASE Next /\ ~Tick
    BY <2>2, IngestThorough, StartThorough, SelectThorough, DeleteThorough, PruneThorough,
       EndThorough DEF Next, CleanerStep
  <2> QED BY <2>1, <2>2
<1> QED BY <1>1, <1>2 DEF ThoroughInv

(* A cleanup that ends without an error, and that no other controller's    *)
(* disturbed, has taken everything that was expired when it began, however *)
(* many batches that took and whatever was ingested meanwhile.             *)
THEOREM CleansUp == Spec => CleanupIsThorough
<1> DEFINE Clean ==
      \A k \in Cleaners :
        cleaners[k].phase = "pruning" /\ cleaners'[k].phase = "idle" /\ failures' = failures =>
          /\ cleaners[k].due.samples \cap samples' = {}
          /\ \A c \in cleaners[k].due.payloads : runs'[c].raw_payload = None
<1>1. ASSUME ThoroughInv, Next PROVE Clean
  <2> SUFFICES ASSUME NEW k \in Cleaners, cleaners[k].phase = "pruning",
                      cleaners'[k].phase = "idle", failures' = failures
               PROVE  /\ cleaners[k].due.samples \cap samples' = {}
                      /\ \A c \in cleaners[k].due.payloads : runs'[c].raw_payload = None
    OBVIOUS
  <2> USE <1>1
  <2> DEFINE own == cleaners[k]
  <2>1. cleaners \in [Cleaners -> Cleaner] /\ \A j \in Cleaners : cleaners[j] \in Cleaner
    BY DEF ThoroughInv, SafeInv, TypeOK
  <2>2. PruneCollectionPayloadsBefore(k)
    <3>1. ASSUME NEW j \in Cleaners PROVE ~Fail(j) /\ ~Restart(j)
      BY DEF Fail, Restart, ThoroughInv, SafeInv, TypeOK
    <3>2. ASSUME NEW j \in Cleaners PROVE ~Select(j)
      BY <2>1 DEF Select, Cleaner
    <3>3. ASSUME NEW j \in Cleaners PROVE ~Start(j)
      <4> SUFFICES ASSUME Start(j) PROVE FALSE
        OBVIOUS
      <4>1. k # j
        BY DEF Start
      <4>2. cleaners'[k] = [own EXCEPT !.due = NothingDue]
        BY <4>1 DEF Start
      <4> QED BY <2>1, <4>2 DEF Cleaner
    <3>4. ASSUME NEW j \in Cleaners PROVE ~DeleteMetricSamplesBefore(j)
      BY <2>1 DEF DeleteMetricSamplesBefore, Cleaner
    <3>5. ASSUME NEW j \in Cleaners, j # k PROVE ~PruneCollectionPayloadsBefore(j)
      BY <2>1, <3>5 DEF PruneCollectionPayloadsBefore
    <3> QED BY <3>1, <3>2, <3>3, <3>4, <3>5 DEF Next, CleanerStep, Ingest, Tick
  <2>3. own.batch # None /\ runs' = Pruned(own.batch) /\ samples' = samples
    BY <2>2 DEF PruneCollectionPayloadsBefore
  <2>4. IsShort(Cardinality(own.batch))
    <3> SUFFICES ASSUME ~IsShort(Cardinality(own.batch)) PROVE FALSE
      OBVIOUS
    <3>1. cleaners'[k] = [own EXCEPT !.batch = None]
      BY <2>1, <2>2 DEF PruneCollectionPayloadsBefore
    <3> QED BY <2>1, <3>1 DEF Cleaner
  <2>5. CASE own.due = NothingDue
    BY <2>5 DEF NothingDue
  <2>6. CASE own.due # NothingDue
    <3>1. Thorough(k)
      BY DEF ThoroughInv
    <3>2. /\ own.batch \in SUBSET Collections /\ \A c \in own.batch : runs[c] # None
          /\ own.due.payloads \subseteq Collections
      BY <2>3, CleanerType DEF ThoroughInv, SafeInv, Expiring
    <3>3. ASSUME NEW c \in own.due.payloads PROVE runs'[c].raw_payload = None
      <4>1. runs[c] # None /\ (c \in own.batch \/ runs[c].raw_payload = None)
        BY <2>3, <2>4, <2>6, <3>1 DEF Thorough
      <4> QED BY <2>3, <3>2, <4>1, PrunedRuns DEF ThoroughInv, SafeInv
    <3> QED BY <2>3, <2>6, <3>1, <3>3 DEF Thorough
  <2> QED BY <2>5, <2>6
<1>2. ThoroughInv /\ [Next]_vars => [Clean]_vars
  BY <1>1
<1>3. Spec => []ThoroughInv
  BY InitThorough, StepThorough, PTL DEF Spec
<1> QED BY <1>2, <1>3, PTL DEF Spec, CleanupIsThorough
=============================================================================
