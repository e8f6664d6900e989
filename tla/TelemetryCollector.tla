------------------------- MODULE TelemetryCollector -------------------------
(***************************************************************************)
(* The gateway's topology endpoint (telemetry.rs): concurrent requests     *)
(* share one collection, a finished snapshot is cached for a while, and a  *)
(* collection asks every pooled machine through a bounded set of tasks     *)
(* until all have answered or its deadline passes.                         *)
(*                                                                         *)
(* `now` is the wall clock the snapshots are stamped with. The deadline    *)
(* runs on the monotonic clock, so it may pass at any `now`.               *)
(***************************************************************************)
EXTENDS Naturals, FiniteSets

CONSTANTS
  Machines,            \* machine ids, the keys of the session pool
  Clients,             \* callers of topology(): API requests of the poller
  machine_concurrency, \* bound on concurrent machine tasks
  snapshot_ttl,        \* how long a finished snapshot is served
  MaxCollections,      \* bound: collections started
  MaxNow,              \* bound: clock
  None

ASSUME ConcurrencyAssumption == machine_concurrency \in Nat \ {0}
ASSUME BoundsAssumption ==
  snapshot_ttl \in Nat /\ MaxCollections \in Nat /\ MaxNow \in Nat
ASSUME MachinesAssumption == IsFiniteSet(Machines)
ASSUME NoneAssumption == None \notin Nat

Ids == 1 .. MaxCollections

VARIABLES
  now,       \* wall clock
  pool,      \* the machines with a pooled session
  cached,    \* CollectorState.cached: the collection it came from, or None
  inflight,  \* CollectorState.running: the collection being awaited, or None
  next_id,   \* the last collection id drawn
  coll,      \* what each collection knows, see Collection
  client     \* what each caller does, see Client

vars == <<now, pool, cached, inflight, next_id, coll, client>>

(* targets is the pool when the collection began; tasks maps a spawned     *)
(* machine to None while its task runs and to its observation time once    *)
(* the task is done; machines maps a joined one to that time; stored_at, a *)
(* history variable, is when the snapshot became the cached one.           *)
Stages == {"unborn", "spawned", "collecting", "built", "stored", "sent"}

Times == 0 .. MaxNow

PartialFn(S, T) == UNION {[D -> T] : D \in SUBSET S}

Collection ==
  [stage : Stages, started_at : Times, completed_at : Times, stored_at : Times,
   targets : SUBSET Machines, pending : SUBSET Machines,
   tasks : PartialFn(Machines, Times \cup {None}),
   machines : PartialFn(Machines, Times),
   errors : SUBSET {"collect_topology", "collect_machine"}]

(* A caller awaits a collection, or holds the one it was answered with;    *)
(* asked_at is when it called.                                             *)
Client ==
  [state : {"idle", "waiting", "answered"}, id : Ids \cup {None}, asked_at : Times]

TypeOK ==
  /\ now \in Times
  /\ pool \subseteq Machines
  /\ cached \in Ids \cup {None}
  /\ inflight \in Ids \cup {None}
  /\ next_id \in 0 .. MaxCollections
  /\ coll \in [Ids -> Collection]
  /\ client \in [Clients -> Client]

Empty == [m \in {} |-> None]

Unborn ==
  [stage |-> "unborn", started_at |-> 0, completed_at |-> 0, stored_at |-> 0,
   targets |-> {}, pending |-> {}, tasks |-> Empty, machines |-> Empty, errors |-> {}]

Init ==
  /\ now = 0
  /\ pool \in SUBSET Machines
  /\ cached = None
  /\ inflight = None
  /\ next_id = 0
  /\ coll = [c \in Ids |-> Unborn]
  /\ client = [k \in Clients |-> [state |-> "idle", id |-> None, asked_at |-> 0]]

-----------------------------------------------------------------------------
(* topology(). The state mutex makes the decision one step.                *)

(* snapshot_age, with the saturating subtraction of the code.              *)
snapshot_age(c) ==
  IF now < coll[c].completed_at THEN 0 ELSE now - coll[c].completed_at

(* Mutants: the cache expires a moment early; it never expires.            *)
CacheIsFreshEarly == cached # None /\ snapshot_age(cached) < snapshot_ttl

CacheIsFreshForever == cached # None

CacheIsFresh == cached # None /\ snapshot_age(cached) <= snapshot_ttl

Call(k, state, c) ==
  client' = [client EXCEPT ![k] = [state |-> state, id |-> c, asked_at |-> now]]

RequestCached(k) ==
  /\ client[k].state # "waiting"
  /\ CacheIsFresh
  /\ Call(k, "answered", cached)
  /\ UNCHANGED <<now, pool, cached, inflight, next_id, coll>>

RequestJoin(k) ==
  /\ client[k].state # "waiting"
  /\ ~CacheIsFresh
  /\ inflight # None
  /\ Call(k, "waiting", inflight)
  /\ UNCHANGED <<now, pool, cached, inflight, next_id, coll>>

(* Mutant: a collection is started although one is running.                *)
RequestStartAnyway(k) ==
  /\ client[k].state # "waiting"
  /\ ~CacheIsFresh
  /\ next_id < MaxCollections
  /\ next_id' = next_id + 1
  /\ inflight' = next_id'
  /\ coll' = [coll EXCEPT ![next_id'].stage = "spawned"]
  /\ Call(k, "waiting", next_id')
  /\ UNCHANGED <<now, pool, cached>>

RequestStart(k) ==
  /\ client[k].state # "waiting"
  /\ ~CacheIsFresh
  /\ inflight = None
  /\ next_id < MaxCollections
  /\ next_id' = next_id + 1
  /\ inflight' = next_id'
  /\ coll' = [coll EXCEPT ![next_id'].stage = "spawned"]
  /\ Call(k, "waiting", next_id')
  /\ UNCHANGED <<now, pool, cached>>

(* The watch channel holds the awaited snapshot.                           *)
Answer(k) ==
  /\ client[k].state = "waiting"
  /\ coll[client[k].id].stage = "sent"
  /\ client' = [client EXCEPT ![k].state = "answered"]
  /\ UNCHANGED <<now, pool, cached, inflight, next_id, coll>>

(* The caller hangs up (its own deadline passed); the collection, a task   *)
(* of its own, goes on.                                                    *)
HangUp(k) ==
  /\ client[k].state = "waiting"
  /\ client' = [client EXCEPT ![k].state = "idle", ![k].id = None]
  /\ UNCHANGED <<now, pool, cached, inflight, next_id, coll>>

-----------------------------------------------------------------------------
(* collect_topology(), the task of collection c.                           *)

AtMost(a, b) == IF a < b THEN a ELSE b

(* The collection reads the clock and the pool, and fills its task set.    *)
Begin(c) ==
  /\ coll[c].stage = "spawned"
  /\ \E first \in SUBSET pool :
       /\ Cardinality(first) = AtMost(machine_concurrency, Cardinality(pool))
       /\ coll' = [coll EXCEPT ![c] =
            [@ EXCEPT !.stage = "collecting", !.started_at = now, !.targets = pool,
                      !.pending = pool \ first, !.tasks = [m \in first |-> None]]]
  /\ UNCHANGED <<now, pool, cached, inflight, next_id, client>>

(* A machine task ends by itself: every RPC in it has a timeout.           *)
TaskDone(c, m) ==
  /\ coll[c].stage = "collecting"
  /\ m \in DOMAIN coll[c].tasks
  /\ coll[c].tasks[m] = None
  /\ coll' = [coll EXCEPT ![c].tasks[m] = now]
  /\ UNCHANGED <<now, pool, cached, inflight, next_id, client>>

(* Removing task m from the set and spawning the next pending machine.     *)
Respawn(r, m) ==
  LET rest(next) == [n \in (DOMAIN r.tasks \ {m}) \cup next |->
                       IF n \in next THEN None ELSE r.tasks[n]]
  IN  IF r.pending = {} THEN {[r EXCEPT !.tasks = rest({})]}
      ELSE {[r EXCEPT !.tasks = rest({n}), !.pending = @ \ {n}] : n \in r.pending}

(* join_next: the finished task's view is kept.                            *)
JoinMachine(c, m) ==
  /\ coll[c].stage = "collecting"
  /\ m \in DOMAIN coll[c].tasks
  /\ coll[c].tasks[m] # None
  /\ \E r \in Respawn(coll[c], m) :
       coll' = [coll EXCEPT ![c] =
         [r EXCEPT !.machines = [n \in DOMAIN @ \cup {m} |->
                                   IF n = m THEN coll[c].tasks[m] ELSE @[n]]]]
  /\ UNCHANGED <<now, pool, cached, inflight, next_id, client>>

(* join_next: the task panicked.                                           *)
JoinPanic(c, m) ==
  /\ coll[c].stage = "collecting"
  /\ m \in DOMAIN coll[c].tasks
  /\ coll[c].tasks[m] = None
  /\ \E r \in Respawn(coll[c], m) :
       coll' = [coll EXCEPT ![c] = [r EXCEPT !.errors = @ \cup {"collect_machine"}]]
  /\ UNCHANGED <<now, pool, cached, inflight, next_id, client>>

(* Mutants: the deadline records no error; it does not abort the tasks.    *)
DeadlineSilent(c) ==
  /\ coll[c].stage = "collecting"
  /\ DOMAIN coll[c].tasks # {}
  /\ coll' = [coll EXCEPT ![c] = [@ EXCEPT !.tasks = Empty, !.pending = {}]]
  /\ UNCHANGED <<now, pool, cached, inflight, next_id, client>>

DeadlineWithoutAbort(c) ==
  /\ coll[c].stage = "collecting"
  /\ DOMAIN coll[c].tasks # {}
  /\ coll' = [coll EXCEPT ![c] =
       [@ EXCEPT !.pending = {}, !.errors = @ \cup {"collect_topology"}]]
  /\ UNCHANGED <<now, pool, cached, inflight, next_id, client>>

(* The deadline: unjoined tasks are aborted, finished ones among them, and *)
(* pending machines are never asked.                                       *)
Deadline(c) ==
  /\ coll[c].stage = "collecting"
  /\ DOMAIN coll[c].tasks # {}
  /\ coll' = [coll EXCEPT ![c] =
       [@ EXCEPT !.tasks = Empty, !.pending = {},
                 !.errors = coll[c].errors \cup {"collect_topology"}]]
  /\ UNCHANGED <<now, pool, cached, inflight, next_id, client>>

(* No task is left: the snapshot is stamped and built.                     *)
Build(c) ==
  /\ coll[c].stage = "collecting"
  /\ DOMAIN coll[c].tasks = {}
  /\ coll' = [coll EXCEPT ![c].stage = "built", ![c].completed_at = now]
  /\ UNCHANGED <<now, pool, cached, inflight, next_id, client>>

(* Under the mutex, the snapshot becomes the cached one.                   *)
Store(c) ==
  /\ coll[c].stage = "built"
  /\ coll' = [coll EXCEPT ![c].stage = "stored", ![c].stored_at = now]
  /\ cached' = c
  /\ inflight' = None
  /\ UNCHANGED <<now, pool, next_id, client>>

(* sender.send_replace, after the mutex was released.                      *)
Send(c) ==
  /\ coll[c].stage = "stored"
  /\ coll' = [coll EXCEPT ![c].stage = "sent"]
  /\ UNCHANGED <<now, pool, cached, inflight, next_id, client>>

-----------------------------------------------------------------------------
(* The environment: time passes, sessions come and go.                     *)
Tick ==
  /\ now < MaxNow
  /\ now' = now + 1
  /\ UNCHANGED <<pool, cached, inflight, next_id, coll, client>>

PoolChanges ==
  /\ \E m \in Machines : pool' = IF m \in pool THEN pool \ {m} ELSE pool \cup {m}
  /\ UNCHANGED <<now, cached, inflight, next_id, coll, client>>

Next ==
  \/ \E k \in Clients :
       RequestCached(k) \/ RequestJoin(k) \/ RequestStart(k) \/ Answer(k) \/ HangUp(k)
  \/ \E c \in Ids :
       \/ Begin(c) \/ Deadline(c) \/ Build(c) \/ Store(c) \/ Send(c)
       \/ \E m \in Machines : TaskDone(c, m) \/ JoinMachine(c, m) \/ JoinPanic(c, m)
  \/ Tick
  \/ PoolChanges

(* The runtime polls ready tasks and the deadline timer fires; no machine  *)
(* has to answer.                                                          *)
CollectionFairness(c) ==
  /\ WF_vars(Begin(c)) /\ WF_vars(Deadline(c))
  /\ WF_vars(Build(c)) /\ WF_vars(Store(c)) /\ WF_vars(Send(c))

ClientFairness(k) == WF_vars(Answer(k))

Fairness ==
  (\A c \in Ids : CollectionFairness(c)) /\ (\A k \in Clients : ClientFairness(k))

Spec == Init /\ [][Next]_vars /\ Fairness

-----------------------------------------------------------------------------
Built(c) == coll[c].stage \in {"built", "stored", "sent"}

(* Collections never overlap: a later one begins only after an earlier one *)
(* was stamped and its snapshot has expired. The controller's observation  *)
(* order is meaningful because of this (single flight and the cache check  *)
(* under one mutex, while the clock does not step back).                   *)
CollectionsAreDisjoint ==
  \A c, d \in Ids :
    c < d /\ coll[d].stage \notin {"unborn", "spawned"} =>
      Built(c) /\ coll[c].completed_at + snapshot_ttl < coll[d].started_at

(* A snapshot without an error speaks for every machine that was pooled    *)
(* when the collection began, and any snapshot only for those, each seen   *)
(* while the collection ran. The controller takes machines that such a     *)
(* snapshot lacks offline.                                                 *)
ErrorFreeMeansComplete ==
  \A c \in Ids : Built(c) =>
    /\ DOMAIN coll[c].machines \subseteq coll[c].targets
    /\ coll[c].errors = {} => DOMAIN coll[c].machines = coll[c].targets
    /\ \A m \in DOMAIN coll[c].machines :
         coll[c].machines[m] \in coll[c].started_at .. coll[c].completed_at

(* A caller is answered with a snapshot that had not expired when it       *)
(* called, counted from its completion, or that was not yet cached then:   *)
(* one that was being collected or finished.                               *)
AnswersAreFresh ==
  \A k \in Clients : client[k].state = "answered" =>
    LET c == coll[client[k].id] IN
    /\ Built(client[k].id)
    /\ \/ client[k].asked_at <= c.completed_at + snapshot_ttl
       \/ client[k].asked_at <= c.stored_at

(* Successive answers to one caller never go back to an earlier            *)
(* collection: a serial poller delivers snapshots in order.                *)
AnswersNeverRegress ==
  [][\A k \in Clients :
       client[k].state = "answered" => client'[k].id >= client[k].id]_vars

(* No wakeup is lost: every caller is answered, unless it hangs up, even   *)
(* if no machine ever replies.                                             *)
EveryCallReturns ==
  \A k \in Clients : client[k].state = "waiting" ~> client[k].state # "waiting"
=============================================================================
