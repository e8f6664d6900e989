------------------------------ MODULE Retention ------------------------------
(***************************************************************************)
(* The retention cleaners (retention/cleaner.go) beside ingestion. Every   *)
(* controller runs one; cleaners of several controllers share the tables   *)
(* and know nothing of each other. A cleanup deletes expired metric        *)
(* samples and then drops the raw payload of expired runs, in batches,     *)
(* until a batch comes back short. A batch is one statement: it selects    *)
(* its rows and then changes those it still finds, and another cleaner's   *)
(* statement may come in between. The digest of a run outlives its         *)
(* payload: duplicate detection (ingest/store.go) relies on it. A run has  *)
(* one metric sample here.                                                 *)
(***************************************************************************)
EXTENDS Integers, FiniteSets

CONSTANTS
  Collections,  \* collection ids
  Cleaners,     \* one per controller
  Times,        \* the times a payload carries
  retention,    \* how long samples and payloads are kept
  batchSize,    \* the LIMIT of a statement
  MaxNow,       \* bound on the clock
  MaxFailures,  \* bound on the failing statements and restarts
  None          \* no row, digest or payload, no statement under way

ASSUME BatchAssumption == batchSize \in Nat \ {0}
ASSUME RetentionAssumption == retention \in Nat \ {0}
(* A table has finitely many rows.                                         *)
ASSUME CollectionsAssumption == IsFiniteSet(Collections)
ASSUME TimeAssumption == Times \subseteq Nat /\ MaxNow \in Nat /\ MaxFailures \in Nat

VARIABLES
  now,        \* the clock
  runs,       \* telemetry_collection_runs
  samples,    \* the collections whose sample is in metric_samples
  cleaners,   \* each cleaner's cleanup and status
  ingested,   \* the payload each run was ingested from, which no table keeps
  failures    \* failures so far

vars == <<now, runs, samples, cleaners, ingested, failures>>

Payload == {p \in [completed_at : Times, observed_at : Times] : p.observed_at <= p.completed_at}

(* raw_payload_sha256 identifies the payload; runs older than migration    *)
(* 002 have none. A pruned raw_payload (JSON null) is None.                *)
Run == [completed_at : Times, observed_at : Times,
        raw_payload : Payload \cup {None}, raw_payload_sha256 : Payload \cup {None}]

ASSUME NoneAssumption == None \notin Payload \cup Run

(* The status counters of deleted samples; those of pruned payloads and    *)
(* the last error are left out. due is what a cleanup found expired when   *)
(* it started, as long as no other cleaner is at work.                     *)
Cleaner ==
  [phase : {"idle", "deleting", "pruning"}, cutoff : Int,
   batch : (SUBSET Collections) \cup {None},
   deleted : Nat, total_deleted_samples : Nat,
   due : [samples : SUBSET Collections, payloads : SUBSET Collections]]

TypeOK ==
  /\ now \in 0 .. MaxNow
  /\ runs \in [Collections -> Run \cup {None}]
  /\ samples \subseteq {c \in Collections : runs[c] # None}
  /\ cleaners \in [Cleaners -> Cleaner]
  /\ ingested \in [Collections -> Payload \cup {None}]
  /\ failures \in 0 .. MaxFailures

RunOf(p, digest) ==
  [completed_at |-> p.completed_at, observed_at |-> p.observed_at,
   raw_payload |-> p, raw_payload_sha256 |-> digest]

NothingDue == [samples |-> {}, payloads |-> {}]

NewCleaner ==
  [phase |-> "idle", cutoff |-> 0, batch |-> None,
   deleted |-> 0, total_deleted_samples |-> 0, due |-> NothingDue]

(* Some runs may date from before migration 002.                           *)
Init ==
  /\ now = 0
  /\ ingested \in [Collections -> Payload \cup {None}]
  /\ runs = [c \in Collections |->
               IF ingested[c] = None THEN None ELSE RunOf(ingested[c], None)]
  /\ samples = {c \in Collections : ingested[c] # None}
  /\ cleaners = [k \in Cleaners |-> NewCleaner]
  /\ failures = 0

-----------------------------------------------------------------------------
(* Ingestion, as far as retention can tell.                                *)

(* The commit of Ingest. A payload may arrive late, even already expired,  *)
(* and its times come from the gateway's clock.                            *)
Ingest(c, p) ==
  /\ runs[c] = None
  /\ runs' = [runs EXCEPT ![c] = RunOf(p, p)]
  /\ samples' = samples \cup {c}
  /\ ingested' = [ingested EXCEPT ![c] = p]
  /\ UNCHANGED <<now, cleaners, failures>>

(* The duplicate check of Ingest on run r for payload p.                   *)
Matches(r, p) ==
  IF r.raw_payload_sha256 # None THEN r.raw_payload_sha256 = p ELSE r.raw_payload = p

-----------------------------------------------------------------------------
(* What the two statements select.                                         *)

Expired(cutoff) == {c \in samples : runs[c].observed_at < cutoff}

(* Mutant: runs without a digest are pruned too.                           *)
PrunableUnchecked(cutoff) ==
  {c \in Collections :
     runs[c] # None /\ runs[c].completed_at < cutoff /\ runs[c].raw_payload # None}

Prunable(cutoff) ==
  {c \in Collections :
     /\ runs[c] # None
     /\ runs[c].completed_at < cutoff
     /\ runs[c].raw_payload # None
     /\ runs[c].raw_payload_sha256 # None}

(* ORDER BY time LIMIT batchSize: the oldest of the rows that time gives   *)
(* a time; ties in any order.                                              *)
Oldest(time) ==
  LET rows == DOMAIN time IN
  {T \in SUBSET rows :
     /\ Cardinality(T) = (IF Cardinality(rows) < batchSize THEN Cardinality(rows) ELSE batchSize)
     /\ \A c \in T, d \in rows \ T : time[c] <= time[d]}

(* The runs after an UPDATE of those in the batch.                         *)
Pruned(batch) ==
  [c \in Collections |->
     IF c \in batch THEN [runs[c] EXCEPT !.raw_payload = None] ELSE runs[c]]

ObservedAt(rows) == [c \in rows |-> runs[c].observed_at]
CompletedAt(rows) == [c \in rows |-> runs[c].completed_at]

-----------------------------------------------------------------------------
(* The cleaners.                                                           *)

(* Mutants: the retention is forgotten; the cutoff is computed once, when  *)
(* the process starts.                                                     *)
CutoffIsNow(startedAt) == startedAt
CutoffOfProcess(startedAt) == 0 - retention

Cutoff(startedAt) == startedAt - retention

(* cleanup starts: on process start and on every tick of the interval.     *)
Start(k) ==
  LET found == IF \A j \in Cleaners : cleaners[j].phase = "idle"
               THEN [samples |-> Expired(Cutoff(now)), payloads |-> Prunable(Cutoff(now))]
               ELSE NothingDue
  IN
  /\ cleaners[k].phase = "idle"
  /\ cleaners' = [j \in Cleaners |->
       IF j = k THEN [cleaners[k] EXCEPT !.phase = "deleting", !.cutoff = Cutoff(now), !.due = found]
       ELSE [cleaners[j] EXCEPT !.due = NothingDue]]
  /\ UNCHANGED <<now, runs, samples, ingested, failures>>

(* A statement has selected its rows.                                      *)
Select(k) ==
  LET own == cleaners[k] IN
  /\ own.phase # "idle"
  /\ own.batch = None
  /\ \E T \in IF own.phase = "deleting" THEN Oldest(ObservedAt(Expired(own.cutoff)))
              ELSE Oldest(CompletedAt(Prunable(own.cutoff))) :
       cleaners' = [cleaners EXCEPT ![k].batch = T]
  /\ UNCHANGED <<now, runs, samples, ingested, failures>>

(* The deferred update of the status.                                      *)
Finished(own) ==
  [own EXCEPT !.phase = "idle", !.total_deleted_samples = @ + own.deleted,
     !.batch = None, !.cutoff = 0, !.deleted = 0, !.due = NothingDue]

(* Mutant: a full batch ends the loop as well.                             *)
IsShortOrFull(count) == count <= batchSize

(* A loop goes on until a batch comes back short.                          *)
IsShort(count) == count < batchSize

(* A sample another cleaner deleted meanwhile is skipped.                  *)
DeleteMetricSamplesBefore(k) ==
  LET own == cleaners[k]
      count == Cardinality(own.batch \cap samples)
  IN
  /\ own.phase = "deleting"
  /\ own.batch # None
  /\ samples' = samples \ own.batch
  /\ cleaners' = [cleaners EXCEPT
       ![k] = [own EXCEPT !.batch = None, !.deleted = own.deleted + count,
                          !.phase = IF IsShort(count) THEN "pruning" ELSE "deleting"]]
  /\ UNCHANGED <<now, runs, ingested, failures>>

(* A run another cleaner pruned meanwhile is updated, and counted, again:  *)
(* its id still is in the selected batch.                                  *)
PruneCollectionPayloadsBefore(k) ==
  LET own == cleaners[k]
      count == Cardinality(own.batch)
  IN
  /\ own.phase = "pruning"
  /\ own.batch # None
  /\ runs' = Pruned(own.batch)
  /\ cleaners' = [cleaners EXCEPT
       ![k] = IF IsShort(count) THEN Finished(own) ELSE [own EXCEPT !.batch = None]]
  /\ UNCHANGED <<now, samples, ingested, failures>>

(* A statement fails, or takes effect without its result coming back: the  *)
(* cleanup ends with what it counted so far.                               *)
Fail(k) ==
  LET own == cleaners[k] IN
  /\ own.batch # None
  /\ failures < MaxFailures
  /\ failures' = failures + 1
  /\ \/ UNCHANGED <<runs, samples>>
     \/ own.phase = "deleting" /\ samples' = samples \ own.batch /\ UNCHANGED runs
     \/ own.phase = "pruning" /\ runs' = Pruned(own.batch) /\ UNCHANGED samples
  /\ cleaners' = [cleaners EXCEPT ![k] = Finished(own)]
  /\ UNCHANGED <<now, ingested>>

(* The controller process is replaced; its counters start from zero.       *)
Restart(k) ==
  /\ failures < MaxFailures
  /\ failures' = failures + 1
  /\ cleaners' = [cleaners EXCEPT ![k] = NewCleaner]
  /\ UNCHANGED <<now, runs, samples, ingested>>

Tick ==
  /\ now < MaxNow
  /\ now' = now + 1
  /\ UNCHANGED <<runs, samples, cleaners, ingested, failures>>

CleanerStep(k) ==
  Start(k) \/ Select(k) \/ DeleteMetricSamplesBefore(k) \/ PruneCollectionPayloadsBefore(k)

Next ==
  \/ \E c \in Collections, p \in Payload : Ingest(c, p)
  \/ \E k \in Cleaners : CleanerStep(k) \/ Fail(k) \/ Restart(k)
  \/ Tick

Spec == Init /\ [][Next]_vars

(* Time passes, a cleaner's timer fires and its statements end.            *)
FairSpec == Spec /\ WF_vars(Tick) /\ \A k \in Cleaners : WF_vars(CleanerStep(k))

-----------------------------------------------------------------------------
(* Only what is out of retention by now is ever deleted or pruned, however *)
(* long ago the cleanup computed its cutoff.                               *)
NothingYoungIsLost ==
  [][/\ \A c \in samples \ samples' : runs[c].observed_at < now - retention
     /\ \A c \in Collections :
          runs[c] # None /\ runs'[c] # runs[c] => runs[c].completed_at < now - retention]_vars

(* Whatever was pruned, a run that is delivered again is taken for a       *)
(* duplicate, and another payload under its id is not.                     *)
DuplicatesAreRecognised ==
  \A c \in Collections, p \in Payload :
    runs[c] # None => (Matches(runs[c], p) <=> p = ingested[c])

(* A cleanup that ends without an error has removed everything that was    *)
(* expired when it began, unless another controller cleans up meanwhile.   *)
CleanupIsThorough ==
  [][\A k \in Cleaners :
       cleaners[k].phase = "pruning" /\ cleaners'[k].phase = "idle" /\ failures' = failures =>
         /\ cleaners[k].due.samples \cap samples' = {}
         /\ \A c \in cleaners[k].due.payloads : runs'[c].raw_payload = None]_vars

(* Cleaners may cut each other's loops short, yet what expires goes: every *)
(* sample, and every payload whose digest is kept.                         *)
WhatExpiresGoes ==
  \A c \in Collections :
    /\ (c \in samples /\ runs[c].observed_at < MaxNow - retention) ~> c \notin samples
    /\ (c \in Prunable(MaxNow - retention)) ~> (c \notin Prunable(MaxNow - retention))
=============================================================================
