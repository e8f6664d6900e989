---------------------- MODULE TelemetryCollectorProofs ----------------------
(***************************************************************************)
(* Theorems about TelemetryCollector, for any number of machines, callers  *)
(* and collections, any concurrency and any lifetime of a snapshot.        *)
(***************************************************************************)
EXTENDS TelemetryCollector, FiniteSetTheorems, TLAPS

IsStored(r) == r.stage \in {"stored", "sent"}
IsBuilt(r) == r.stage \in {"built", "stored", "sent"}

(* What a collection knows at time t: its stamps are in order; while it    *)
(* collects, every target is asked, to be asked, or has answered, unless   *)
(* an error says otherwise; and it has nobody left to ask when no task is  *)
(* left.                                                                   *)
Stamped(r, t) ==
  /\ r.stage \notin {"unborn", "spawned"} => r.started_at <= t
  /\ IsBuilt(r) => r.started_at <= r.completed_at /\ r.completed_at <= t
  /\ IsStored(r) => r.completed_at <= r.stored_at /\ r.stored_at <= t

Covering(r, t) ==
  /\ r.stage \in {"unborn", "spawned"} => DOMAIN r.machines = {}
  /\ r.stage = "collecting" =>
       /\ DOMAIN r.tasks \cup r.pending \cup DOMAIN r.machines \subseteq r.targets
       /\ r.errors = {} => r.targets \subseteq DOMAIN r.tasks \cup r.pending \cup DOMAIN r.machines
       /\ DOMAIN r.tasks = {} => r.pending = {}
       /\ \A m \in DOMAIN r.tasks : r.tasks[m] # None => r.tasks[m] \in r.started_at .. t
       /\ \A m \in DOMAIN r.machines : r.machines[m] \in r.started_at .. t
  /\ IsBuilt(r) =>
       /\ DOMAIN r.machines \subseteq r.targets
       /\ r.errors = {} => DOMAIN r.machines = r.targets
       /\ \A m \in DOMAIN r.machines : r.machines[m] \in r.started_at .. r.completed_at

Sound(r, t) == r \in Collection /\ Stamped(r, t) /\ Covering(r, t)

(* Single flight: ids are drawn in order, only the last one drawn may be   *)
(* in flight, all others are stored, and the last stored is the cached.    *)
LastStored == IF inflight = None THEN next_id ELSE next_id - 1

Flight ==
  /\ \A c \in Ids : coll[c].stage = "unborn" <=> c > next_id
  /\ inflight # None =>
       /\ inflight = next_id /\ next_id >= 1
       /\ coll[next_id].stage \in {"spawned", "collecting", "built"}
  /\ \A c \in Ids : c <= next_id /\ c # inflight => IsStored(coll[c])
  /\ cached = IF LastStored = 0 THEN None ELSE LastStored

(* A collection begins, or will begin, after all earlier ones expired.     *)
BeginOf(r) == IF r.stage = "spawned" THEN now ELSE r.started_at

InOrder ==
  \A c, d \in Ids :
    c < d /\ d <= next_id => coll[c].completed_at + snapshot_ttl < BeginOf(coll[d])

Served(k) ==
  LET own == client[k] IN
  /\ own.asked_at <= now
  /\ own.state = "waiting" =>
       /\ own.id \in Ids /\ own.id <= next_id
       /\ IsStored(coll[own.id]) => own.asked_at <= coll[own.id].stored_at
  /\ own.state = "answered" =>
       /\ own.id \in Ids /\ IsStored(coll[own.id])
       /\ \/ own.asked_at <= coll[own.id].completed_at + snapshot_ttl
          \/ own.asked_at <= coll[own.id].stored_at

IInv ==
  /\ TypeOK
  /\ \A c \in Ids : Sound(coll[c], now)
  /\ Flight /\ InOrder
  /\ \A k \in Clients : Served(k)

-----------------------------------------------------------------------------
LEMMA PartialFnIntro ==
  ASSUME NEW S, NEW T, NEW D \in SUBSET S, NEW f \in [D -> T]
  PROVE  f \in PartialFn(S, T)
BY DEF PartialFn

LEMMA PartialFnElim ==
  ASSUME NEW S, NEW T, NEW f \in PartialFn(S, T)
  PROVE  DOMAIN f \in SUBSET S /\ f \in [DOMAIN f -> T]
BY DEF PartialFn

LEMMA EmptyType ==
  ASSUME NEW S, NEW T
  PROVE  Empty \in PartialFn(S, T) /\ DOMAIN Empty = {}
<1>1. Empty \in [{} -> T] /\ DOMAIN Empty = {}
  BY DEF Empty
<1> QED BY <1>1, PartialFnIntro

LEMMA Numbers ==
  /\ Ids \subseteq Nat /\ None \notin Ids /\ Times \subseteq Nat
  /\ snapshot_ttl \in Nat /\ MaxCollections \in Nat /\ MaxNow \in Nat /\ 0 \in Times
BY BoundsAssumption, NoneAssumption DEF Ids, Times

LEMMA CollectionType ==
  ASSUME NEW r \in Collection
  PROVE  /\ r.started_at \in Nat /\ r.completed_at \in Nat /\ r.stored_at \in Nat
         /\ r.started_at \in Times /\ r.completed_at \in Times /\ r.stored_at \in Times
         /\ r.targets \in SUBSET Machines /\ r.pending \in SUBSET Machines
         /\ r.tasks \in PartialFn(Machines, Times \cup {None})
         /\ r.machines \in PartialFn(Machines, Times)
         /\ r.errors \in SUBSET {"collect_topology", "collect_machine"}
         /\ r.stage \in Stages
<1>1. /\ r.started_at \in Times /\ r.completed_at \in Times /\ r.stored_at \in Times
      /\ r.targets \in SUBSET Machines /\ r.pending \in SUBSET Machines
      /\ r.tasks \in PartialFn(Machines, Times \cup {None})
      /\ r.machines \in PartialFn(Machines, Times)
      /\ r.errors \in SUBSET {"collect_topology", "collect_machine"}
      /\ r.stage \in Stages
  BY DEF Collection
<1>2. r.started_at \in Nat /\ r.completed_at \in Nat /\ r.stored_at \in Nat
  BY <1>1, Numbers
<1> QED BY <1>1, <1>2

LEMMA State ==
  ASSUME IInv
  PROVE  /\ now \in Nat /\ next_id \in Nat /\ next_id <= MaxCollections
         /\ coll \in [Ids -> Collection] /\ client \in [Clients -> Client]
         /\ \A c \in Ids : coll[c] \in Collection
         /\ \A k \in Clients : client[k] \in Client /\ client[k].asked_at \in Nat
<1>1. /\ now \in Times /\ next_id \in 0 .. MaxCollections
      /\ coll \in [Ids -> Collection] /\ client \in [Clients -> Client]
  BY DEF IInv, TypeOK
<1>2. \A k \in Clients : client[k] \in Client /\ client[k].asked_at \in Times
  BY <1>1 DEF Client
<1>3. now \in Nat /\ \A k \in Clients : client[k].asked_at \in Nat
  BY <1>1, <1>2, Numbers
<1>4. next_id \in Nat /\ next_id <= MaxCollections
  BY <1>1, Numbers
<1>5. \A c \in Ids : coll[c] \in Collection
  BY <1>1
<1> QED BY <1>1, <1>2, <1>3, <1>4, <1>5

(* Time passes: everything that held of a collection still does.           *)
LEMMA SoundLater ==
  ASSUME NEW r, NEW t \in Nat, Sound(r, t)
  PROVE  Sound(r, t + 1)
<1>1. /\ r.started_at \in Nat /\ r.completed_at \in Nat /\ r.stored_at \in Nat
  BY CollectionType DEF Sound
<1>2. Stamped(r, t + 1)
  BY <1>1 DEF Sound, Stamped
<1>3. \A x \in r.started_at .. t : x \in r.started_at .. t + 1
  BY <1>1
<1>4. Covering(r, t + 1)
  BY <1>3 DEF Sound, Covering
<1> QED BY <1>2, <1>4 DEF Sound

LEMMA InitInvariant == Init => IInv
<1> SUFFICES ASSUME Init PROVE IInv
  OBVIOUS
<1>1. Unborn \in Collection /\ Unborn.stage = "unborn" /\ DOMAIN Unborn.machines = {}
  <2>1. 0 \in Times /\ "unborn" \in Stages
    BY Numbers DEF Stages
  <2>2. Empty \in PartialFn(Machines, Times \cup {None}) /\ Empty \in PartialFn(Machines, Times)
        /\ DOMAIN Empty = {}
    BY EmptyType
  <2> QED BY <2>1, <2>2 DEF Unborn, Collection
<1>2. TypeOK
  <2>1. [state |-> "idle", id |-> None, asked_at |-> 0] \in Client
    BY Numbers DEF Client
  <2> QED BY <1>1, <2>1, Numbers DEF Init, TypeOK
<1>3. \A c \in Ids : Sound(coll[c], now)
  BY <1>1 DEF Init, Sound, Stamped, Covering, IsBuilt, IsStored
<1>4. \A c \in Ids : c > 0 /\ ~(c <= 0)
  BY Numbers DEF Ids
<1>5. Flight
  BY <1>1, <1>4 DEF Init, Flight, LastStored
<1>6. InOrder
  BY <1>4 DEF Init, InOrder
<1>7. \A k \in Clients : Served(k)
  BY DEF Init, Served
<1> QED BY <1>2, <1>3, <1>5, <1>6, <1>7 DEF IInv

-----------------------------------------------------------------------------
(* The callers.                                                            *)

(* A caller's step leaves the collections alone.                           *)
LEMMA CallerStep ==
  ASSUME IInv, NEW k \in Clients, UNCHANGED <<now, pool, cached, inflight, next_id, coll>>,
         NEW own \in Client, client' = [client EXCEPT ![k] = own], Served(k)'
  PROVE  IInv'
<1>1. TypeOK'
  BY State DEF IInv, TypeOK
<1>2. ASSUME NEW j \in Clients, j # k PROVE Served(j)'
  BY <1>2, State DEF IInv, Served
<1>3. Flight' /\ InOrder'
  BY DEF IInv, Flight, LastStored, InOrder, BeginOf
<1> QED BY <1>1, <1>2, <1>3 DEF IInv

(* What a cached snapshot is, when there is one.                           *)
LEMMA CachedIsLast ==
  ASSUME IInv, cached # None
  PROVE  /\ cached \in Ids /\ IsStored(coll[cached]) /\ cached <= next_id
         /\ \A c \in Ids : IsStored(coll[c]) => c <= cached
         /\ coll[cached].completed_at <= now
         /\ coll[cached].completed_at <= coll[cached].stored_at
<1>1. /\ next_id \in Nat /\ next_id <= MaxCollections /\ Ids \subseteq Nat /\ None \notin Nat
  BY State, Numbers, NoneAssumption
<1>2. cached = LastStored /\ LastStored # 0
  BY DEF IInv, Flight
<1>3. cached \in Ids
  BY <1>2 DEF IInv, TypeOK
<1>4. cached <= next_id /\ cached # inflight
  BY <1>1, <1>2, <1>3 DEF LastStored, IInv, Flight
<1>5. IsStored(coll[cached])
  BY <1>3, <1>4 DEF IInv, Flight
<1>6. ASSUME NEW c \in Ids, IsStored(coll[c]) PROVE c <= cached
  <2>1. c <= next_id
    BY <1>1, <1>6 DEF IInv, Flight, IsStored
  <2>2. c # inflight
    <3> SUFFICES ASSUME c = inflight PROVE FALSE
      OBVIOUS
    <3>1. inflight # None
      BY Numbers
    <3>2. coll[c].stage \in {"spawned", "collecting", "built"}
      BY <3>1 DEF IInv, Flight
    <3> QED BY <1>6, <3>2 DEF IsStored
  <2> QED BY <1>1, <1>2, <2>1, <2>2 DEF LastStored, IInv, Flight
<1> QED BY <1>3, <1>4, <1>5, <1>6 DEF IInv, Sound, Stamped, IsBuilt, IsStored

LEMMA FreshMeans ==
  ASSUME IInv, cached # None
  PROVE  CacheIsFresh <=> now <= coll[cached].completed_at + snapshot_ttl
<1>1. coll[cached].completed_at \in Nat /\ now \in Nat /\ snapshot_ttl \in Nat
  BY State, CachedIsLast, CollectionType, Numbers
<1> QED BY <1>1, CachedIsLast DEF CacheIsFresh, snapshot_age

LEMMA RequestCachedKeeps ==
  ASSUME IInv, NEW k \in Clients, RequestCached(k)
  PROVE  IInv'
<1> DEFINE own == [state |-> "answered", id |-> cached, asked_at |-> now]
<1>1. cached # None
  BY DEF RequestCached, CacheIsFresh
<1>2. /\ cached \in Ids /\ IsStored(coll[cached])
      /\ now <= coll[cached].completed_at + snapshot_ttl
  BY <1>1, CachedIsLast, FreshMeans DEF RequestCached
<1>3. now \in Times /\ own \in Client
  BY <1>2 DEF Client, IInv, TypeOK
<1>4. client' = [client EXCEPT ![k] = own] /\ UNCHANGED <<now, pool, cached, inflight, next_id, coll>>
  BY DEF RequestCached, Call
<1>5. client'[k] = own
  BY <1>4, State
<1>6. Served(k)'
  BY <1>2, <1>4, <1>5, State DEF Served
<1> QED BY <1>3, <1>4, <1>6, CallerStep

LEMMA RequestJoinKeeps ==
  ASSUME IInv, NEW k \in Clients, RequestJoin(k)
  PROVE  IInv'
<1> DEFINE own == [state |-> "waiting", id |-> inflight, asked_at |-> now]
<1>1. /\ inflight \in Ids /\ inflight = next_id
      /\ ~IsStored(coll[inflight])
  BY DEF RequestJoin, IInv, Flight, TypeOK, IsStored
<1>2. own \in Client
  BY <1>1 DEF Client, IInv, TypeOK
<1>3. client' = [client EXCEPT ![k] = own] /\ UNCHANGED <<now, pool, cached, inflight, next_id, coll>>
  BY DEF RequestJoin, Call
<1>4. client'[k] = own
  BY <1>3, State
<1>5. Served(k)'
  BY <1>1, <1>3, <1>4, State DEF Served
<1> QED BY <1>2, <1>3, <1>5, CallerStep

LEMMA AnswerKeeps ==
  ASSUME IInv, NEW k \in Clients, Answer(k) \/ HangUp(k)
  PROVE  IInv'
<1> DEFINE old == client[k]
<1>1. /\ old \in Client /\ old.state = "waiting" /\ Served(k)
      /\ UNCHANGED <<now, pool, cached, inflight, next_id, coll>>
  BY State DEF Answer, HangUp, IInv
<1>2. CASE Answer(k)
  <2> DEFINE own == [old EXCEPT !.state = "answered"]
  <2>1. own \in Client /\ own.id = old.id /\ own.asked_at = old.asked_at /\ own.state = "answered"
    BY <1>1 DEF Client
  <2>2. client' = [client EXCEPT ![k] = own]
    BY <1>2 DEF Answer
  <2>3. client'[k] = own
    BY <2>2, State
  <2>4. old.id \in Ids /\ IsStored(coll[old.id]) /\ old.asked_at <= coll[old.id].stored_at
    BY <1>1, <1>2 DEF Served, Answer, IsStored
  <2> HIDE DEF own
  <2>5. Served(k)'
    BY <1>1, <2>1, <2>3, <2>4 DEF Served
  <2> QED BY <1>1, <2>1, <2>2, <2>5, CallerStep
<1>3. CASE HangUp(k)
  <2> DEFINE own == [old EXCEPT !.state = "idle", !.id = None]
  <2>1. own \in Client /\ own.asked_at = old.asked_at /\ own.state = "idle"
    BY <1>1 DEF Client
  <2>2. client' = [client EXCEPT ![k] = own]
    BY <1>3 DEF HangUp
  <2>3. client'[k] = own
    BY <2>2, State
  <2> HIDE DEF own
  <2>4. Served(k)'
    BY <1>1, <2>1, <2>3 DEF Served
  <2> QED BY <1>1, <2>1, <2>2, <2>4, CallerStep
<1> QED BY <1>2, <1>3

LEMMA RequestStartKeeps ==
  ASSUME IInv, NEW k \in Clients, RequestStart(k)
  PROVE  IInv'
<1> DEFINE n == next_id + 1
           r == [coll[n] EXCEPT !.stage = "spawned"]
           own == [state |-> "waiting", id |-> n, asked_at |-> now]
<1>1. /\ n \in Ids /\ next_id \in Nat /\ Ids \subseteq Nat /\ inflight = None
      /\ None \notin Ids
  BY State, Numbers DEF RequestStart, Ids
<1>2. /\ next_id' = n /\ inflight' = n
      /\ coll' = [coll EXCEPT ![n] = r]
      /\ client' = [client EXCEPT ![k] = own]
      /\ UNCHANGED <<now, pool, cached>>
  BY DEF RequestStart, Call
<1>3. /\ coll'[n] = r /\ \A c \in Ids : c # n => coll'[c] = coll[c]
      /\ client'[k] = own /\ \A j \in Clients : j # k => client'[j] = client[j]
  BY <1>1, <1>2, State
<1>4. coll[n].stage = "unborn" /\ coll[n] \in Collection /\ DOMAIN coll[n].machines = {}
  BY <1>1, State DEF IInv, Flight, Sound, Covering
<1>5. r \in Collection /\ r.stage = "spawned" /\ r.machines = coll[n].machines
  BY <1>4 DEF Collection, Stages
<1>6. own \in Client /\ now \in Times /\ now \in Nat
  BY <1>1, State DEF Client, IInv, TypeOK
<1> HIDE DEF r
<1>7. Sound(r, now)
  BY <1>4, <1>5 DEF Sound, Stamped, Covering, IsBuilt, IsStored
<1>8. TypeOK'
  BY <1>1, <1>2, <1>5, <1>6, State, Numbers DEF IInv, TypeOK, Ids
<1>9. \A c \in Ids : Sound(coll[c], now)'
  BY <1>2, <1>3, <1>7 DEF IInv
<1>10. \A c \in Ids : c <= next_id => IsStored(coll[c])
  BY <1>1 DEF IInv, Flight
<1>11. Flight'
  <2>1. \A c \in Ids : coll'[c].stage = "unborn" <=> c > n
    <3> SUFFICES ASSUME NEW c \in Ids PROVE coll'[c].stage = "unborn" <=> c > n
      OBVIOUS
    <3>1. CASE c = n
      BY <3>1, <1>1, <1>3, <1>5
    <3>2. CASE c # n
      BY <3>2, <1>1, <1>3 DEF IInv, Flight
    <3> QED BY <3>1, <3>2
  <2>2. \A c \in Ids : c <= n /\ c # n => IsStored(coll'[c])
    BY <1>1, <1>3, <1>10
  <2>3. LastStored' = next_id /\ LastStored = next_id
    BY <1>1, <1>2 DEF LastStored
  <2>4. cached' = IF next_id = 0 THEN None ELSE next_id
    BY <1>2, <2>3 DEF IInv, Flight
  <2> QED BY <1>1, <1>2, <1>3, <1>5, <2>1, <2>2, <2>3, <2>4 DEF Flight
<1>12. \A c \in Ids : c <= next_id => coll[c].completed_at + snapshot_ttl < now
  <2> SUFFICES ASSUME NEW c \in Ids, c <= next_id
               PROVE  coll[c].completed_at + snapshot_ttl < now
    OBVIOUS
  <2>1. next_id # 0
    BY <1>1 DEF Ids
  <2>2. cached = next_id /\ cached \in Ids /\ cached # None
    <3>1. cached = next_id
      BY <1>1, <2>1 DEF IInv, Flight, LastStored
    <3>2. next_id # None /\ next_id \in Ids
      BY <1>1, <2>1, State, NoneAssumption DEF Ids
    <3> QED BY <3>1, <3>2
  <2>3. /\ coll[c].completed_at \in Nat /\ coll[cached].completed_at \in Nat
        /\ coll[cached].started_at \in Nat /\ snapshot_ttl \in Nat
    BY <2>2, State, CollectionType, Numbers
  <2>4. coll[cached].completed_at + snapshot_ttl < now
    BY <1>6, <2>2, <2>3, FreshMeans DEF RequestStart
  <2>5. CASE c = cached
    BY <2>4, <2>5
  <2>6. CASE c # cached
    <3>1. c < cached
      BY <1>1, <2>2, <2>6
    <3>2. IsStored(coll[cached]) /\ coll[cached].started_at <= coll[cached].completed_at
      BY <2>2, CachedIsLast DEF IInv, Sound, Stamped, IsBuilt, IsStored
    <3>3. coll[c].completed_at + snapshot_ttl < coll[cached].started_at
      BY <2>2, <3>1, <3>2, CachedIsLast DEF IInv, InOrder, BeginOf, IsStored
    <3> QED BY <1>6, <2>3, <2>4, <3>2, <3>3
  <2> QED BY <2>5, <2>6
<1>13. InOrder'
  <2> SUFFICES ASSUME NEW c \in Ids, NEW d \in Ids, c < d, d <= n
               PROVE  coll'[c].completed_at + snapshot_ttl < BeginOf(coll[d])'
    BY <1>2 DEF InOrder
  <2>1. c # n /\ coll'[c] = coll[c] /\ c <= next_id
    BY <1>1, <1>3
  <2>2. CASE d = n
    BY <1>2, <1>3, <1>5, <1>12, <2>1, <2>2 DEF BeginOf
  <2>3. CASE d # n
    <3>1. d <= next_id /\ coll'[d] = coll[d]
      BY <1>1, <1>3, <2>3
    <3> QED BY <1>2, <2>1, <3>1 DEF IInv, InOrder, BeginOf
  <2> QED BY <2>2, <2>3
<1>14. ASSUME NEW j \in Clients PROVE Served(j)'
  <2>1. CASE j = k
    BY <1>1, <1>2, <1>3, <1>5, <1>6, <2>1 DEF Served, IsStored
  <2>2. CASE j # k
    <3>1. client'[j] = client[j] /\ Served(j)
      BY <1>3, <2>2 DEF IInv
    <3>2. ASSUME NEW c \in Ids, IsStored(coll[c]) PROVE c <= next_id
      <4>1. coll[c].stage # "unborn"
        BY <3>2 DEF IsStored
      <4>2. ~(c > next_id)
        BY <4>1 DEF IInv, Flight
      <4> QED BY <1>1, <4>2
    <3>3. \A c \in Ids : c <= next_id => c <= n /\ coll'[c] = coll[c]
      BY <1>1, <1>3
    <3>4. client[j].state = "waiting" =>
             /\ client[j].id \in Ids /\ client[j].id <= n
             /\ coll'[client[j].id] = coll[client[j].id]
      BY <3>1, <3>3 DEF Served
    <3>5. client[j].state = "answered" =>
             client[j].id \in Ids /\ coll'[client[j].id] = coll[client[j].id]
      BY <3>1, <3>2, <3>3 DEF Served
    <3> HIDE DEF n
    <3> QED BY <1>2, <3>1, <3>4, <3>5 DEF Served
  <2> QED BY <2>1, <2>2
<1> QED BY <1>8, <1>9, <1>11, <1>13, <1>14 DEF IInv

-----------------------------------------------------------------------------
(* The collection in flight.                                               *)

(* A collection that was not yet built is the one in flight.               *)
LEMMA RunningIsInflight ==
  ASSUME IInv, NEW c \in Ids, coll[c].stage \in {"spawned", "collecting", "built"}
  PROVE  c = inflight /\ c = next_id /\ inflight # None
<1>1. c <= next_id
  BY State, Numbers DEF IInv, Flight
<1>2. c = inflight
  BY <1>1 DEF IInv, Flight, IsStored
<1> QED BY <1>2, Numbers DEF IInv, Flight

(* It moves on, and stays in flight.                                       *)
LEMMA Progress ==
  ASSUME IInv, NEW c \in Ids, coll[c].stage \in {"spawned", "collecting"},
         NEW r, coll' = [coll EXCEPT ![c] = r],
         UNCHANGED <<now, pool, cached, inflight, next_id, client>>,
         Sound(r, now), r.stage \in {"collecting", "built"},
         r.started_at = BeginOf(coll[c])
  PROVE  IInv'
<1>1. c = inflight /\ c = next_id /\ inflight # None
  BY RunningIsInflight
<1>2. coll'[c] = r /\ (\A d \in Ids : d # c => coll'[d] = coll[d])
  BY State
<1>3. r \in Collection /\ next_id \in Nat /\ Ids \subseteq Nat
  BY State, Numbers DEF Sound
<1>4. TypeOK'
  BY <1>3, State DEF IInv, TypeOK
<1>5. \A d \in Ids : Sound(coll[d], now)'
  BY <1>2 DEF IInv
<1>6. Flight'
  <2>1. \A d \in Ids : coll'[d].stage = "unborn" <=> d > next_id
    BY <1>1, <1>2, <1>3 DEF IInv, Flight
  <2>2. \A d \in Ids : d <= next_id /\ d # inflight => IsStored(coll'[d])
    BY <1>1, <1>2 DEF IInv, Flight
  <2>3. LastStored' = LastStored
    BY DEF LastStored
  <2>4. next_id >= 1 /\ coll'[next_id].stage \in {"spawned", "collecting", "built"}
    BY <1>1, <1>2 DEF IInv, Flight
  <2> QED BY <1>1, <2>1, <2>2, <2>3, <2>4 DEF IInv, Flight
<1>7. InOrder'
  <2> SUFFICES ASSUME NEW d \in Ids, NEW e \in Ids, d < e, e <= next_id
               PROVE  coll'[d].completed_at + snapshot_ttl < BeginOf(coll[e])'
    BY DEF InOrder
  <2>1. d # c /\ coll'[d] = coll[d]
    BY <1>1, <1>2, <1>3
  <2>2. BeginOf(coll[e])' = BeginOf(coll[e])
    BY <1>2 DEF BeginOf
  <2> QED BY <2>1, <2>2 DEF IInv, InOrder
<1>8. ASSUME NEW k \in Clients PROVE Served(k)'
  <2>1. Served(k) /\ ~IsStored(r) /\ ~IsStored(coll[c])
    BY DEF IInv, IsStored
  <2> QED BY <1>2, <2>1 DEF Served
<1> QED BY <1>4, <1>5, <1>6, <1>7, <1>8 DEF IInv

LEMMA BeginKeeps ==
  ASSUME IInv, NEW c \in Ids, Begin(c)
  PROVE  IInv'
<1>1. PICK first \in SUBSET pool :
        /\ Cardinality(first) = AtMost(machine_concurrency, Cardinality(pool))
        /\ coll' = [coll EXCEPT ![c] =
             [coll[c] EXCEPT !.stage = "collecting", !.started_at = now, !.targets = pool,
                       !.pending = pool \ first, !.tasks = [m \in first |-> None]]]
  BY State DEF Begin
<1> DEFINE old == coll[c]
           r == [old EXCEPT !.stage = "collecting", !.started_at = now, !.targets = pool,
                       !.pending = pool \ first, !.tasks = [m \in first |-> None]]
<1>2. /\ old \in Collection /\ old.stage = "spawned" /\ DOMAIN old.machines = {}
      /\ now \in Times /\ now \in Nat /\ pool \subseteq Machines
  BY State DEF Begin, IInv, Sound, Covering, TypeOK
<1>3. [m \in first |-> None] \in PartialFn(Machines, Times \cup {None})
      /\ DOMAIN [m \in first |-> None] = first
  <2>1. [m \in first |-> None] \in [first -> Times \cup {None}] /\ first \in SUBSET Machines
    BY <1>2
  <2> QED BY <2>1, PartialFnIntro
<1>4. r \in Collection
  BY <1>2, <1>3 DEF Collection, Stages
<1>5. /\ r.stage = "collecting" /\ r.started_at = now /\ r.targets = pool
      /\ r.pending = pool \ first /\ r.tasks = [m \in first |-> None]
      /\ r.machines = old.machines
  BY <1>2 DEF Collection
<1>6. first = {} => pool = {}
  <2> SUFFICES ASSUME first = {} PROVE pool = {}
    OBVIOUS
  <2>1. IsFiniteSet(pool) /\ Cardinality(pool) \in Nat
    BY <1>2, MachinesAssumption, FS_Subset, FS_CardinalityType
  <2>2. Cardinality(first) = 0
    BY FS_EmptySet
  <2>3. Cardinality(pool) = 0
    BY <1>1, <2>1, <2>2, ConcurrencyAssumption DEF AtMost
  <2> QED BY <2>1, <2>3, FS_EmptySet
<1> HIDE DEF r
<1>7. Sound(r, now)
  <2>1. Stamped(r, now)
    BY <1>2, <1>5 DEF Stamped, IsBuilt, IsStored
  <2>2. Covering(r, now)
    BY <1>2, <1>3, <1>5, <1>6 DEF Covering, IsBuilt
  <2> QED BY <1>4, <2>1, <2>2 DEF Sound
<1>8. r.started_at = BeginOf(old)
  BY <1>2, <1>5 DEF BeginOf
<1>9. coll' = [coll EXCEPT ![c] = r]
  BY <1>1 DEF r
<1> QED BY <1>2, <1>5, <1>7, <1>8, <1>9, Progress DEF Begin

(* What a collecting record offers.                                        *)
LEMMA CollectingMeans ==
  ASSUME IInv, NEW c \in Ids, coll[c].stage = "collecting"
  PROVE  /\ coll[c] \in Collection /\ coll[c].started_at <= now
         /\ now \in coll[c].started_at .. now
         /\ now \in Times /\ now \in Nat /\ None \notin Times
         /\ Covering(coll[c], now) /\ BeginOf(coll[c]) = coll[c].started_at
<1>1. coll[c] \in Collection /\ Stamped(coll[c], now) /\ Covering(coll[c], now)
      /\ now \in Times
  BY DEF IInv, Sound, TypeOK
<1>2. coll[c].started_at \in Nat /\ now \in Nat /\ coll[c].started_at <= now
  BY <1>1, State, CollectionType DEF Stamped
<1>3. now \in coll[c].started_at .. now
  BY <1>2
<1>4. None \notin Times
  BY NoneAssumption, Numbers
<1> QED BY <1>1, <1>2, <1>3, <1>4 DEF BeginOf

LEMMA TaskDoneKeeps ==
  ASSUME IInv, NEW c \in Ids, NEW m \in Machines, TaskDone(c, m)
  PROVE  IInv'
<1> DEFINE old == coll[c]
           tasks == [old.tasks EXCEPT ![m] = now]
           r == [old EXCEPT !.tasks = tasks]
<1>1. /\ old.stage = "collecting" /\ m \in DOMAIN old.tasks /\ coll' = [coll EXCEPT ![c] = r]
      /\ UNCHANGED <<now, pool, cached, inflight, next_id, client>>
  BY DEF TaskDone
<1>2. /\ old \in Collection /\ old.started_at <= now
      /\ now \in old.started_at .. now /\ now \in Times
      /\ Covering(old, now) /\ BeginOf(old) = old.started_at
  BY <1>1, CollectingMeans
<1>3. tasks \in PartialFn(Machines, Times \cup {None}) /\ DOMAIN tasks = DOMAIN old.tasks
  <2>1. DOMAIN old.tasks \in SUBSET Machines /\ old.tasks \in [DOMAIN old.tasks -> Times \cup {None}]
    BY <1>2, CollectionType, PartialFnElim
  <2>2. tasks \in [DOMAIN old.tasks -> Times \cup {None}]
    BY <1>2, <2>1
  <2> QED BY <2>1, <2>2, PartialFnIntro
<1>4. \A x \in DOMAIN tasks : tasks[x] = IF x = m THEN now ELSE old.tasks[x]
  OBVIOUS
<1> HIDE DEF tasks
<1>5. r \in Collection /\ r.stage = "collecting" /\ r.tasks = tasks
      /\ r.started_at = old.started_at /\ r.targets = old.targets /\ r.pending = old.pending
      /\ r.machines = old.machines /\ r.errors = old.errors
  BY <1>1, <1>2, <1>3 DEF Collection
<1> HIDE DEF r
<1>6. Stamped(r, now)
  BY <1>2, <1>5 DEF Stamped, IsBuilt, IsStored
<1>7. Covering(r, now)
  BY <1>1, <1>2, <1>3, <1>4, <1>5 DEF Covering, IsBuilt
<1> QED BY <1>1, <1>2, <1>5, <1>6, <1>7, Progress DEF Sound

(* Joining task m: what Respawn leaves of a collecting record.             *)
LEMMA RespawnMeans ==
  ASSUME IInv, NEW c \in Ids, coll[c].stage = "collecting",
         NEW m \in DOMAIN coll[c].tasks, NEW r \in Respawn(coll[c], m)
  PROVE  LET old == coll[c] IN
         /\ r \in Collection /\ r.stage = "collecting"
         /\ r.started_at = old.started_at /\ r.targets = old.targets
         /\ r.machines = old.machines /\ r.errors = old.errors
         /\ DOMAIN r.tasks \cup r.pending \subseteq old.targets
         /\ DOMAIN old.tasks \cup old.pending \subseteq DOMAIN r.tasks \cup r.pending \cup {m}
         /\ DOMAIN r.tasks = {} => r.pending = {}
         /\ \A x \in DOMAIN r.tasks : r.tasks[x] # None => r.tasks[x] \in old.started_at .. now
<1> DEFINE old == coll[c]
           rest(next) == [n \in (DOMAIN old.tasks \ {m}) \cup next |->
                            IF n \in next THEN None ELSE old.tasks[n]]
<1>1. old \in Collection /\ Covering(old, now)
  BY CollectingMeans
<1>2. /\ DOMAIN old.tasks \in SUBSET Machines
      /\ old.tasks \in [DOMAIN old.tasks -> Times \cup {None}]
      /\ old.pending \in SUBSET Machines
  BY <1>1, CollectionType, PartialFnElim
<1>3. ASSUME NEW next \in SUBSET Machines
      PROVE  /\ rest(next) \in PartialFn(Machines, Times \cup {None})
             /\ DOMAIN rest(next) = (DOMAIN old.tasks \ {m}) \cup next
             /\ \A x \in DOMAIN rest(next) : rest(next)[x] # None =>
                   rest(next)[x] \in old.started_at .. now
  <2>1. rest(next) \in [(DOMAIN old.tasks \ {m}) \cup next -> Times \cup {None}]
    BY <1>2
  <2>2. (DOMAIN old.tasks \ {m}) \cup next \in SUBSET Machines
    BY <1>2
  <2>3. \A x \in DOMAIN rest(next) : rest(next)[x] # None =>
                   rest(next)[x] \in old.started_at .. now
    BY <1>1 DEF Covering
  <2> HIDE DEF rest
  <2> QED BY <2>1, <2>2, <2>3, PartialFnIntro
<1>4. CASE old.pending = {}
  <2>1. r = [old EXCEPT !.tasks = rest({})]
    BY <1>4 DEF Respawn
  <2> HIDE DEF rest
  <2>2. /\ rest({}) \in PartialFn(Machines, Times \cup {None})
        /\ DOMAIN rest({}) = DOMAIN old.tasks \ {m}
        /\ \A x \in DOMAIN rest({}) : rest({})[x] # None =>
                   rest({})[x] \in old.started_at .. now
    <3> HIDE DEF old
    <3>1. {} \in SUBSET Machines /\ (DOMAIN old.tasks \ {m}) \cup {} = DOMAIN old.tasks \ {m}
      OBVIOUS
    <3>2. /\ rest({}) \in PartialFn(Machines, Times \cup {None})
          /\ DOMAIN rest({}) = (DOMAIN old.tasks \ {m}) \cup {}
          /\ \A x \in DOMAIN rest({}) : rest({})[x] # None =>
                     rest({})[x] \in old.started_at .. now
      BY <1>3, <3>1, Zenon
    <3> QED BY <3>1, <3>2, Zenon
  <2>3. /\ r \in Collection /\ r.stage = "collecting" /\ r.tasks = rest({})
        /\ r.started_at = old.started_at /\ r.targets = old.targets /\ r.pending = old.pending
        /\ r.machines = old.machines /\ r.errors = old.errors
    BY <1>1, <2>1, <2>2 DEF Collection
  <2> QED BY <1>1, <1>4, <2>2, <2>3 DEF Covering
<1>5. CASE old.pending # {}
  <2>1. PICK n \in old.pending : r = [old EXCEPT !.tasks = rest({n}), !.pending = old.pending \ {n}]
    BY <1>5 DEF Respawn
  <2> HIDE DEF rest
  <2>2. /\ rest({n}) \in PartialFn(Machines, Times \cup {None})
        /\ DOMAIN rest({n}) = (DOMAIN old.tasks \ {m}) \cup {n}
        /\ \A x \in DOMAIN rest({n}) : rest({n})[x] # None =>
                   rest({n})[x] \in old.started_at .. now
    <3>1. {n} \in SUBSET Machines
      BY <1>2
    <3> HIDE DEF old
    <3> QED BY <1>3, <3>1, Zenon
  <2>3. old.pending \ {n} \in SUBSET Machines
    BY <1>2
  <2>4. /\ r \in Collection /\ r.stage = "collecting" /\ r.tasks = rest({n})
        /\ r.started_at = old.started_at /\ r.targets = old.targets
        /\ r.pending = old.pending \ {n}
        /\ r.machines = old.machines /\ r.errors = old.errors
    BY <1>1, <2>1, <2>2, <2>3 DEF Collection
  <2> QED BY <1>1, <2>2, <2>4 DEF Covering
<1> QED BY <1>4, <1>5

LEMMA JoinMachineKeeps ==
  ASSUME IInv, NEW c \in Ids, NEW m \in Machines, JoinMachine(c, m)
  PROVE  IInv'
<1> DEFINE old == coll[c]
<1>1. /\ old.stage = "collecting" /\ m \in DOMAIN old.tasks /\ old.tasks[m] # None
      /\ UNCHANGED <<now, pool, cached, inflight, next_id, client>>
  BY DEF JoinMachine
<1>2. PICK r \in Respawn(old, m) :
        coll' = [coll EXCEPT ![c] =
          [r EXCEPT !.machines = [n \in DOMAIN r.machines \cup {m} |->
                                    IF n = m THEN old.tasks[m] ELSE r.machines[n]]]]
  BY DEF JoinMachine
<1>3. /\ r \in Collection /\ r.stage = "collecting"
      /\ r.started_at = old.started_at /\ r.targets = old.targets
      /\ r.machines = old.machines /\ r.errors = old.errors
      /\ DOMAIN r.tasks \cup r.pending \subseteq old.targets
      /\ DOMAIN old.tasks \cup old.pending \subseteq DOMAIN r.tasks \cup r.pending \cup {m}
      /\ DOMAIN r.tasks = {} => r.pending = {}
      /\ \A x \in DOMAIN r.tasks : r.tasks[x] # None => r.tasks[x] \in old.started_at .. now
  BY <1>1, RespawnMeans
<1>4. /\ old \in Collection /\ old.started_at <= now
      /\ Covering(old, now) /\ BeginOf(old) = old.started_at
  BY <1>1, CollectingMeans
<1> DEFINE seen == [n \in DOMAIN r.machines \cup {m} |->
                      IF n = m THEN old.tasks[m] ELSE r.machines[n]]
           q == [r EXCEPT !.machines = seen]
<1>5. seen \in PartialFn(Machines, Times) /\ DOMAIN seen = DOMAIN old.machines \cup {m}
  <2>1. DOMAIN r.machines \in SUBSET Machines /\ r.machines \in [DOMAIN r.machines -> Times]
    BY <1>3, CollectionType, PartialFnElim
  <2>2. old.tasks[m] \in Times
    BY <1>1, <1>4, CollectionType, PartialFnElim
  <2>3. seen \in [DOMAIN r.machines \cup {m} -> Times] /\ DOMAIN r.machines \cup {m} \in SUBSET Machines
    BY <2>1, <2>2
  <2> QED BY <1>3, <2>3, PartialFnIntro
<1>6. \A x \in DOMAIN seen : seen[x] \in old.started_at .. now
  BY <1>1, <1>3, <1>4 DEF Covering
<1> HIDE DEF seen
<1>7. /\ q \in Collection /\ q.stage = "collecting" /\ q.machines = seen
      /\ q.started_at = r.started_at /\ q.targets = r.targets /\ q.pending = r.pending
      /\ q.tasks = r.tasks /\ q.errors = r.errors
  BY <1>3, <1>5 DEF Collection
<1>8. coll' = [coll EXCEPT ![c] = q]
  BY <1>2 DEF seen
<1> HIDE DEF q
<1>9. Stamped(q, now)
  BY <1>3, <1>4, <1>7 DEF Stamped, IsBuilt, IsStored
<1>10. Covering(q, now)
  <2>1. DOMAIN q.tasks \cup q.pending \cup DOMAIN q.machines \subseteq q.targets
    BY <1>1, <1>3, <1>4, <1>5, <1>7 DEF Covering
  <2>2. q.errors = {} => q.targets \subseteq DOMAIN q.tasks \cup q.pending \cup DOMAIN q.machines
    BY <1>1, <1>3, <1>4, <1>5, <1>7 DEF Covering
  <2> QED BY <1>3, <1>6, <1>7, <2>1, <2>2 DEF Covering, IsBuilt
<1> QED BY <1>1, <1>3, <1>4, <1>7, <1>8, <1>9, <1>10, Progress DEF Sound

LEMMA JoinPanicKeeps ==
  ASSUME IInv, NEW c \in Ids, NEW m \in Machines, JoinPanic(c, m)
  PROVE  IInv'
<1> DEFINE old == coll[c]
<1>1. /\ old.stage = "collecting" /\ m \in DOMAIN old.tasks
      /\ UNCHANGED <<now, pool, cached, inflight, next_id, client>>
  BY DEF JoinPanic
<1>2. PICK r \in Respawn(old, m) :
        coll' = [coll EXCEPT ![c] = [r EXCEPT !.errors = r.errors \cup {"collect_machine"}]]
  BY DEF JoinPanic
<1>3. /\ r \in Collection /\ r.stage = "collecting"
      /\ r.started_at = old.started_at /\ r.targets = old.targets
      /\ r.machines = old.machines
      /\ DOMAIN r.tasks \cup r.pending \subseteq old.targets
      /\ DOMAIN r.tasks = {} => r.pending = {}
      /\ \A x \in DOMAIN r.tasks : r.tasks[x] # None => r.tasks[x] \in old.started_at .. now
  BY <1>1, RespawnMeans
<1>4. /\ old \in Collection /\ old.started_at <= now
      /\ Covering(old, now) /\ BeginOf(old) = old.started_at
  BY <1>1, CollectingMeans
<1> DEFINE errors == r.errors \cup {"collect_machine"}
           q == [r EXCEPT !.errors = errors]
<1>5. errors \in SUBSET {"collect_topology", "collect_machine"} /\ errors # {}
  BY <1>3, CollectionType
<1>8. coll' = [coll EXCEPT ![c] = q]
  BY <1>2
<1> HIDE DEF errors
<1>7. /\ q \in Collection /\ q.stage = "collecting" /\ q.machines = r.machines
      /\ q.started_at = r.started_at /\ q.targets = r.targets /\ q.pending = r.pending
      /\ q.tasks = r.tasks /\ q.errors # {}
  BY <1>3, <1>5 DEF Collection
<1> HIDE DEF q
<1>9. Stamped(q, now)
  BY <1>3, <1>4, <1>7 DEF Stamped, IsBuilt, IsStored
<1>10. Covering(q, now)
  BY <1>1, <1>3, <1>4, <1>7 DEF Covering, IsBuilt
<1> QED BY <1>1, <1>3, <1>4, <1>7, <1>8, <1>9, <1>10, Progress DEF Sound

LEMMA DeadlineKeeps ==
  ASSUME IInv, NEW c \in Ids, Deadline(c)
  PROVE  IInv'
<1> DEFINE old == coll[c]
           errors == old.errors \cup {"collect_topology"}
           r == [old EXCEPT !.tasks = Empty, !.pending = {}, !.errors = errors]
<1>1. /\ old.stage = "collecting" /\ coll' = [coll EXCEPT ![c] = r]
      /\ UNCHANGED <<now, pool, cached, inflight, next_id, client>>
  BY DEF Deadline
<1>2. /\ old \in Collection /\ old.started_at <= now
      /\ Covering(old, now) /\ BeginOf(old) = old.started_at
  BY <1>1, CollectingMeans
<1>3. Empty \in PartialFn(Machines, Times \cup {None}) /\ DOMAIN Empty = {}
  BY EmptyType
<1>4. errors \in SUBSET {"collect_topology", "collect_machine"} /\ errors # {}
  BY <1>2, CollectionType
<1> HIDE DEF errors
<1>5. /\ r \in Collection /\ r.stage = "collecting" /\ r.machines = old.machines
      /\ r.started_at = old.started_at /\ r.targets = old.targets /\ r.pending = {}
      /\ r.tasks = Empty /\ r.errors # {}
  BY <1>1, <1>2, <1>3, <1>4 DEF Collection
<1> HIDE DEF r
<1>6. Stamped(r, now)
  BY <1>2, <1>5 DEF Stamped, IsBuilt, IsStored
<1>7. Covering(r, now)
  BY <1>1, <1>2, <1>3, <1>5 DEF Covering, IsBuilt
<1> QED BY <1>1, <1>2, <1>5, <1>6, <1>7, Progress DEF Sound

LEMMA BuildKeeps ==
  ASSUME IInv, NEW c \in Ids, Build(c)
  PROVE  IInv'
<1> DEFINE old == coll[c]
           r == [old EXCEPT !.stage = "built", !.completed_at = now]
<1>1. /\ old.stage = "collecting" /\ DOMAIN old.tasks = {} /\ coll' = [coll EXCEPT ![c] = r]
      /\ UNCHANGED <<now, pool, cached, inflight, next_id, client>>
  BY DEF Build
<1>2. /\ old \in Collection /\ old.started_at <= now /\ now \in Times /\ now \in Nat
      /\ Covering(old, now) /\ BeginOf(old) = old.started_at
  BY <1>1, CollectingMeans
<1>5. /\ r \in Collection /\ r.stage = "built" /\ r.machines = old.machines
      /\ r.started_at = old.started_at /\ r.targets = old.targets
      /\ r.completed_at = now /\ r.errors = old.errors
  BY <1>1, <1>2 DEF Collection, Stages
<1> HIDE DEF r
<1>6. Stamped(r, now)
  BY <1>2, <1>5 DEF Stamped, IsBuilt, IsStored
<1>7. Covering(r, now)
  BY <1>1, <1>2, <1>5 DEF Covering, IsBuilt
<1> QED BY <1>1, <1>2, <1>5, <1>6, <1>7, Progress DEF Sound

LEMMA StoreKeeps ==
  ASSUME IInv, NEW c \in Ids, Store(c)
  PROVE  IInv'
<1> DEFINE old == coll[c]
           r == [old EXCEPT !.stage = "stored", !.stored_at = now]
<1>1. /\ old.stage = "built" /\ coll' = [coll EXCEPT ![c] = r]
      /\ cached' = c /\ inflight' = None /\ UNCHANGED <<now, pool, next_id, client>>
  BY DEF Store
<1>2. c = inflight /\ c = next_id /\ c # 0
  BY <1>1, RunningIsInflight DEF Ids
<1>3. coll'[c] = r /\ (\A d \in Ids : d # c => coll'[d] = coll[d])
  BY <1>1, State
<1>4. old \in Collection /\ now \in Times /\ now \in Nat /\ Stamped(old, now) /\ Covering(old, now)
      /\ next_id \in Nat /\ Ids \subseteq Nat
  BY State, Numbers DEF IInv, Sound, TypeOK
<1>5. /\ r \in Collection /\ r.stage = "stored" /\ r.machines = old.machines
      /\ r.started_at = old.started_at /\ r.targets = old.targets
      /\ r.completed_at = old.completed_at /\ r.errors = old.errors /\ r.stored_at = now
  BY <1>4 DEF Collection, Stages
<1> HIDE DEF r
<1>6. Sound(r, now)
  <2>1. Stamped(r, now)
    BY <1>1, <1>4, <1>5 DEF Stamped, IsBuilt, IsStored
  <2>2. Covering(r, now)
    BY <1>1, <1>4, <1>5 DEF Covering, IsBuilt
  <2> QED BY <1>5, <2>1, <2>2 DEF Sound
<1>7. TypeOK'
  BY <1>1, <1>4, <1>5, State DEF IInv, TypeOK
<1>8. \A d \in Ids : Sound(coll[d], now)'
  BY <1>1, <1>3, <1>6 DEF IInv
<1>9. Flight'
  <2>1. \A d \in Ids : coll'[d].stage = "unborn" <=> d > next_id
    BY <1>2, <1>3, <1>4, <1>5 DEF IInv, Flight
  <2>2. \A d \in Ids : d <= next_id => IsStored(coll'[d])
    BY <1>2, <1>3, <1>5 DEF IInv, Flight, IsStored
  <2>3. LastStored' = next_id
    BY <1>1 DEF LastStored
  <2> QED BY <1>1, <1>2, <2>1, <2>2, <2>3 DEF Flight
<1>10. InOrder'
  <2> SUFFICES ASSUME NEW d \in Ids, NEW e \in Ids, d < e, e <= next_id
               PROVE  coll'[d].completed_at + snapshot_ttl < BeginOf(coll[e])'
    BY <1>1 DEF InOrder
  <2>1. coll'[d].completed_at = coll[d].completed_at
    BY <1>3, <1>5
  <2>2. BeginOf(coll[e])' = BeginOf(coll[e])
    BY <1>1, <1>3, <1>5 DEF BeginOf
  <2> QED BY <2>1, <2>2 DEF IInv, InOrder
<1>11. ASSUME NEW k \in Clients PROVE Served(k)'
  <2>1. Served(k) /\ IsStored(r) /\ ~IsStored(old) /\ client'[k] = client[k]
    BY <1>1, <1>5 DEF IInv, IsStored
  <2>2. client[k].state = "answered" => client[k].id # c
    BY <2>1 DEF Served
  <2>3. client[k].state = "waiting" /\ client[k].id = c =>
          client[k].asked_at <= coll'[c].stored_at
    BY <1>3, <1>5, <2>1 DEF Served
  <2> QED BY <1>1, <1>3, <2>1, <2>2, <2>3 DEF Served
<1> QED BY <1>7, <1>8, <1>9, <1>10, <1>11 DEF IInv

LEMMA SendKeeps ==
  ASSUME IInv, NEW c \in Ids, Send(c)
  PROVE  IInv'
<1> DEFINE old == coll[c]
           r == [old EXCEPT !.stage = "sent"]
<1>1. /\ old.stage = "stored" /\ coll' = [coll EXCEPT ![c] = r]
      /\ UNCHANGED <<now, pool, cached, inflight, next_id, client>>
  BY DEF Send
<1>2. coll'[c] = r /\ (\A d \in Ids : d # c => coll'[d] = coll[d])
  BY <1>1, State
<1>3. old \in Collection /\ Stamped(old, now) /\ Covering(old, now)
  BY DEF IInv, Sound
<1>4. /\ r \in Collection /\ r.stage = "sent" /\ r.machines = old.machines
      /\ r.started_at = old.started_at /\ r.targets = old.targets
      /\ r.completed_at = old.completed_at /\ r.errors = old.errors
      /\ r.stored_at = old.stored_at
  BY <1>3 DEF Collection, Stages
<1> HIDE DEF r
<1>5. Sound(r, now)
  <2>1. Stamped(r, now)
    BY <1>1, <1>3, <1>4 DEF Stamped, IsBuilt, IsStored
  <2>2. Covering(r, now)
    BY <1>1, <1>3, <1>4 DEF Covering, IsBuilt
  <2> QED BY <1>4, <2>1, <2>2 DEF Sound
<1>6. IsStored(r) /\ IsStored(old)
  BY <1>1, <1>4 DEF IsStored
<1>7. TypeOK'
  BY <1>1, <1>4, State DEF IInv, TypeOK
<1>8. \A d \in Ids : Sound(coll[d], now)'
  BY <1>1, <1>2, <1>5 DEF IInv
<1>9. Flight'
  <2>1. \A d \in Ids : coll'[d].stage = "unborn" <=> d > next_id
    BY <1>1, <1>2, <1>4 DEF IInv, Flight
  <2>2. \A d \in Ids : d <= next_id /\ d # inflight => IsStored(coll'[d])
    BY <1>2, <1>6 DEF IInv, Flight
  <2>3. LastStored' = LastStored
    BY <1>1 DEF LastStored
  <2>4. inflight # None => next_id \in Ids /\ next_id # c
    BY <1>1 DEF IInv, Flight, TypeOK
  <2> QED BY <1>1, <1>2, <2>1, <2>2, <2>3, <2>4 DEF IInv, Flight
<1>10. InOrder'
  <2> SUFFICES ASSUME NEW d \in Ids, NEW e \in Ids, d < e, e <= next_id
               PROVE  coll'[d].completed_at + snapshot_ttl < BeginOf(coll[e])'
    BY <1>1 DEF InOrder
  <2>1. coll'[d].completed_at = coll[d].completed_at
    BY <1>2, <1>4
  <2>2. BeginOf(coll[e])' = BeginOf(coll[e])
    BY <1>1, <1>2, <1>4 DEF BeginOf
  <2> QED BY <2>1, <2>2 DEF IInv, InOrder
<1>11. ASSUME NEW k \in Clients PROVE Served(k)'
  <2>1. Served(k)
    BY DEF IInv
  <2> QED BY <1>1, <1>2, <1>4, <1>6, <2>1 DEF Served
<1> QED BY <1>7, <1>8, <1>9, <1>10, <1>11 DEF IInv

-----------------------------------------------------------------------------
(* The environment.                                                        *)
LEMMA TickKeeps ==
  ASSUME IInv, Tick
  PROVE  IInv'
<1>1. /\ now \in Nat /\ now < MaxNow /\ now' = now + 1
      /\ UNCHANGED <<pool, cached, inflight, next_id, coll, client>>
  BY State DEF Tick
<1>2. TypeOK'
  BY <1>1, Numbers DEF IInv, TypeOK, Times
<1>3. \A c \in Ids : Sound(coll[c], now)'
  BY <1>1, SoundLater DEF IInv
<1>4. Flight'
  BY <1>1 DEF IInv, Flight, LastStored
<1>5. InOrder'
  <2> SUFFICES ASSUME NEW c \in Ids, NEW d \in Ids, c < d, d <= next_id
               PROVE  coll[c].completed_at + snapshot_ttl < BeginOf(coll[d])'
    BY <1>1 DEF InOrder
  <2>1. coll[c].completed_at + snapshot_ttl < BeginOf(coll[d])
    BY DEF IInv, InOrder
  <2>2. coll[c].completed_at \in Nat /\ coll[d].started_at \in Nat /\ snapshot_ttl \in Nat
    BY State, CollectionType, Numbers
  <2> QED BY <1>1, <2>1, <2>2 DEF BeginOf
<1>6. ASSUME NEW k \in Clients PROVE Served(k)'
  <2>1. Served(k) /\ client[k].asked_at \in Nat
    BY State DEF IInv
  <2>2. client[k].asked_at <= now + 1
    BY <1>1, <2>1 DEF Served
  <2> QED BY <1>1, <2>1, <2>2 DEF Served
<1> QED BY <1>2, <1>3, <1>4, <1>5, <1>6 DEF IInv

LEMMA PoolChangesKeeps ==
  ASSUME IInv, UNCHANGED <<now, cached, inflight, next_id, coll, client>>,
         pool' \subseteq Machines
  PROVE  IInv'
<1>1. TypeOK'
  BY DEF IInv, TypeOK
<1>2. \A c \in Ids : Sound(coll[c], now)'
  BY DEF IInv
<1>3. Flight' /\ InOrder'
  BY DEF IInv, Flight, LastStored, InOrder, BeginOf
<1>4. \A k \in Clients : Served(k)'
  BY DEF IInv, Served
<1> QED BY <1>1, <1>2, <1>3, <1>4 DEF IInv

LEMMA StepInvariant == IInv /\ [Next]_vars => IInv'
<1> SUFFICES ASSUME IInv, [Next]_vars PROVE IInv'
  OBVIOUS
<1>1. ASSUME NEW k \in Clients,
             RequestCached(k) \/ RequestJoin(k) \/ RequestStart(k) \/ Answer(k) \/ HangUp(k)
      PROVE  IInv'
  BY <1>1, RequestCachedKeeps, RequestJoinKeeps, RequestStartKeeps, AnswerKeeps
<1>2. ASSUME NEW c \in Ids, Begin(c) \/ Deadline(c) \/ Build(c) \/ Store(c) \/ Send(c)
      PROVE  IInv'
  BY <1>2, BeginKeeps, DeadlineKeeps, BuildKeeps, StoreKeeps, SendKeeps
<1>3. ASSUME NEW c \in Ids, NEW m \in Machines,
             TaskDone(c, m) \/ JoinMachine(c, m) \/ JoinPanic(c, m)
      PROVE  IInv'
  BY <1>3, TaskDoneKeeps, JoinMachineKeeps, JoinPanicKeeps
<1>4. CASE Tick
  BY <1>4, TickKeeps
<1>5. CASE PoolChanges
  <2>1. pool' \subseteq Machines
    BY <1>5 DEF PoolChanges, IInv, TypeOK
  <2> QED BY <1>5, <2>1, PoolChangesKeeps DEF PoolChanges
<1>6. CASE UNCHANGED vars
  <2>1. pool' \subseteq Machines
    BY <1>6 DEF vars, IInv, TypeOK
  <2> QED BY <1>6, <2>1, PoolChangesKeeps DEF vars
<1> QED BY <1>1, <1>2, <1>3, <1>4, <1>5, <1>6 DEF Next

(* The variables keep their types, the stamps and the coverage of every    *)
(* collection stay sound, and at most one collection is in flight.         *)
THEOREM Invariance == Spec => []IInv
<1>1. Init => IInv
  BY InitInvariant
<1>2. IInv /\ [Next]_vars => IInv'
  BY StepInvariant
<1> QED BY <1>1, <1>2, PTL DEF Spec

-----------------------------------------------------------------------------
(* Collections never overlap: the collector keeps one in flight and starts *)
(* the next only when the snapshot of the last has expired, so the stamps  *)
(* of two collections are at least the lifetime of a snapshot apart.       *)
THEOREM Disjoint == Spec => []CollectionsAreDisjoint
<1>1. IInv => CollectionsAreDisjoint
  <2> SUFFICES ASSUME IInv, NEW c \in Ids, NEW d \in Ids, c < d,
                      coll[d].stage \notin {"unborn", "spawned"}
               PROVE  Built(c) /\ coll[c].completed_at + snapshot_ttl < coll[d].started_at
    BY DEF CollectionsAreDisjoint
  <2>1. next_id \in Nat /\ Ids \subseteq Nat
    BY State, Numbers
  <2>2. ~(d > next_id)
    BY DEF IInv, Flight
  <2>3. d <= next_id /\ c < next_id
    BY <2>1, <2>2
  <2>4. c # inflight
    BY <2>1, <2>3, Numbers DEF IInv, Flight
  <2>5. IsStored(coll[c])
    BY <2>1, <2>3, <2>4 DEF IInv, Flight
  <2>6. coll[c].completed_at + snapshot_ttl < BeginOf(coll[d])
    BY <2>3 DEF IInv, InOrder
  <2> QED BY <2>5, <2>6 DEF Built, IsStored, BeginOf
<1> QED BY <1>1, Invariance, PTL

(* A snapshot without an error covers every machine pooled when its        *)
(* collection began: joining, panicking and the deadline lose no target    *)
(* silently.                                                               *)
THEOREM Complete == Spec => []ErrorFreeMeansComplete
<1>1. IInv => ErrorFreeMeansComplete
  BY DEF IInv, Sound, Covering, ErrorFreeMeansComplete, Built, IsBuilt
<1> QED BY <1>1, Invariance, PTL

(* No caller is answered with a snapshot that had expired when it called.  *)
THEOREM Fresh == Spec => []AnswersAreFresh
<1>1. IInv => AnswersAreFresh
  BY DEF IInv, Served, AnswersAreFresh, Built, IsStored
<1> QED BY <1>1, Invariance, PTL

(* A caller's next call is served by the same collection or a later one:   *)
(* the cache holds the last collection and the one in flight is newer.     *)
THEOREM NeverRegress == Spec => AnswersNeverRegress
<1>1. ASSUME IInv, Next, NEW k \in Clients, client[k].state = "answered"
      PROVE  client'[k].id >= client[k].id
  <2>1. /\ client[k].id \in Ids /\ IsStored(coll[client[k].id])
        /\ next_id \in Nat /\ Ids \subseteq Nat
    BY <1>1, State, Numbers DEF IInv, Served
  <2> DEFINE old == client[k].id
  <2>2. old <= next_id
    <3>1. old \in Ids /\ coll[old].stage # "unborn"
      BY <2>1 DEF IsStored
    <3>2. ~(old > next_id)
      BY <1>1, <3>1 DEF IInv, Flight
    <3> HIDE DEF old
    <3> QED BY <2>1, <3>1, <3>2
  <2>3. CASE client'[k] = client[k]
    <3>1. old \in Nat /\ client'[k].id = old
      BY <2>1, <2>3
    <3> HIDE DEF old
    <3>2. client'[k].id >= old
      BY <3>1
    <3> QED BY <3>2 DEF old
  <2>4. ASSUME RequestCached(k) PROVE client'[k].id >= client[k].id
    <3>1. cached # None
      BY <2>4 DEF RequestCached, CacheIsFresh
    <3>2. cached \in Ids /\ client[k].id <= cached
      BY <1>1, <2>1, <3>1, CachedIsLast
    <3>3. client'[k].id = cached
      BY <1>1, <2>4, State DEF RequestCached, Call
    <3> QED BY <2>1, <3>2, <3>3
  <2>5. ASSUME RequestJoin(k) PROVE client'[k].id >= client[k].id
    <3>1. inflight = next_id
      BY <1>1, <2>5 DEF RequestJoin, IInv, Flight
    <3>2. client'[k].id = inflight
      BY <1>1, <2>5, State DEF RequestJoin, Call
    <3> QED BY <2>1, <2>2, <3>1, <3>2
  <2>6. ASSUME RequestStart(k) PROVE client'[k].id >= client[k].id
    <3>1. client'[k].id = next_id + 1
      BY <1>1, <2>6, State DEF RequestStart, Call
    <3>2. old \in Nat
      BY <2>1
    <3> HIDE DEF old
    <3>3. next_id + 1 >= old
      BY <2>1, <2>2, <3>2
    <3> QED BY <3>1, <3>3 DEF old
  <2>7. ~Answer(k) /\ ~HangUp(k)
    BY <1>1 DEF Answer, HangUp
  <2>8. ASSUME NEW j \in Clients, j # k,
               RequestCached(j) \/ RequestJoin(j) \/ RequestStart(j) \/ Answer(j) \/ HangUp(j)
        PROVE  client'[k] = client[k]
    BY <1>1, <2>8, State DEF RequestCached, RequestJoin, RequestStart, Answer, HangUp, Call
  <2>9. ASSUME NEW c \in Ids, Begin(c) \/ Deadline(c) \/ Build(c) \/ Store(c) \/ Send(c)
        PROVE  client'[k] = client[k]
    BY <2>9 DEF Begin, Deadline, Build, Store, Send
  <2>10. ASSUME NEW c \in Ids, NEW m \in Machines,
                TaskDone(c, m) \/ JoinMachine(c, m) \/ JoinPanic(c, m)
         PROVE  client'[k] = client[k]
    BY <2>10 DEF TaskDone, JoinMachine, JoinPanic
  <2>11. ASSUME Tick \/ PoolChanges PROVE client'[k] = client[k]
    BY <2>11 DEF Tick, PoolChanges
  <2> QED BY <1>1, <2>3, <2>4, <2>5, <2>6, <2>7, <2>8, <2>9, <2>10, <2>11 DEF Next
<1>2. IInv /\ [Next]_vars =>
        [\A k \in Clients :
           client[k].state = "answered" => client'[k].id >= client[k].id]_vars
  BY <1>1
<1> QED BY <1>2, Invariance, PTL DEF Spec, AnswersNeverRegress

-----------------------------------------------------------------------------
(* Liveness, for any number of machines, callers and collections. The      *)
(* prover does not compute ENABLED, so that the runtime can take the next  *)
(* step of a task that is ready is a hypothesis: the actions assign each   *)
(* variable once, under these guards, and change the stage or the state of *)
(* the caller. Only Begin also has to find enough machines to ask first,   *)
(* see FirstTasksExist.                                                    *)
CanBegin(c) == ENABLED <<Begin(c)>>_vars
CanTimeOut(c) == ENABLED <<Deadline(c)>>_vars
CanBuild(c) == ENABLED <<Build(c)>>_vars
CanStore(c) == ENABLED <<Store(c)>>_vars
CanSend(c) == ENABLED <<Send(c)>>_vars
CanAnswer(k) == ENABLED <<Answer(k)>>_vars

Spawned(c) == coll[c].stage = "spawned"
Asking(c) == coll[c].stage = "collecting" /\ DOMAIN coll[c].tasks # {}
Drained(c) == coll[c].stage = "collecting" /\ DOMAIN coll[c].tasks = {}
Unstored(c) == coll[c].stage = "built"
Unsent(c) == coll[c].stage = "stored"
Sent(c) == coll[c].stage = "sent"

ReadyTasksCanStep ==
  /\ \A c \in Ids :
       /\ Spawned(c) => CanBegin(c)
       /\ Asking(c) => CanTimeOut(c)
       /\ Drained(c) => CanBuild(c)
       /\ Unstored(c) => CanStore(c)
       /\ Unsent(c) => CanSend(c)
  /\ \A k \in Clients :
       client[k].state = "waiting" /\ coll[client[k].id].stage = "sent" => CanAnswer(k)

(* A collection finds its first tasks, whatever the pool and the bound.    *)
LEMMA FirstTasksExist ==
  ASSUME IInv
  PROVE  \E first \in SUBSET pool :
           Cardinality(first) = AtMost(machine_concurrency, Cardinality(pool))
<1> DEFINE n == Cardinality(pool)
           least == AtMost(machine_concurrency, n)
<1>1. IsFiniteSet(pool) /\ n \in Nat
  BY MachinesAssumption, FS_Subset, FS_CardinalityType DEF IInv, TypeOK
<1>2. least \in Nat /\ least <= n
  <2> HIDE DEF n
  <2> QED BY <1>1, ConcurrencyAssumption DEF AtMost
<1>3. PICK f : f \in Bijection(1 .. n, pool)
  BY <1>1, FS_CountingElements, FS_CardinalityType DEF ExistsBijection
<1> HIDE DEF n, least
<1> DEFINE first == {f[i] : i \in 1 .. least}
           g == [i \in 1 .. least |-> f[i]]
<1>4. 1 .. least \subseteq 1 .. n
  BY <1>1, <1>2
<1>5. /\ f \in [1 .. n -> pool]
      /\ \A i, j \in 1 .. n : f[i] = f[j] => i = j
  BY <1>3 DEF Bijection, Injection, IsInjective
<1>6. first \in SUBSET pool
  BY <1>4, <1>5
<1>7. g \in Bijection(1 .. least, first)
  <2>1. g \in [1 .. least -> first] /\ \A i \in 1 .. least : g[i] = f[i]
    OBVIOUS
  <2>2. \A i, j \in 1 .. least : g[i] = g[j] => i = j
    BY <1>4, <1>5, <2>1, Zenon
  <2>3. \A x \in first : \E i \in 1 .. least : g[i] = x
    BY <2>1
  <2> HIDE DEF g, first
  <2> QED BY <2>1, <2>2, <2>3 DEF Bijection, Injection, Surjection, IsInjective
<1>8. Cardinality(first) = least
  BY <1>2, <1>7, FS_CountingElements DEF ExistsBijection
<1> QED BY <1>6, <1>8 DEF least, n

(* What the steps of c's own task do.                                      *)
LEMMA TaskEffects ==
  ASSUME IInv, NEW c \in Ids
  PROVE  /\ Begin(c) => coll'[c].stage = "collecting"
         /\ Deadline(c) => Drained(c)'
         /\ Build(c) => Unstored(c)'
         /\ Store(c) => Unsent(c)'
         /\ Send(c) => Sent(c)'
         /\ \A m \in Machines :
              TaskDone(c, m) \/ JoinMachine(c, m) \/ JoinPanic(c, m) =>
                coll[c].stage = "collecting" /\ m \in DOMAIN coll[c].tasks
                  /\ coll'[c].stage = "collecting"
<1>1. coll \in [Ids -> Collection] /\ coll[c] \in Collection
  BY State
<1>2. Begin(c) => coll'[c].stage = "collecting"
  BY <1>1 DEF Begin, Collection
<1>3. Deadline(c) => Drained(c)'
  BY <1>1 DEF Deadline, Drained, Collection, Empty
<1>4. Build(c) => Unstored(c)'
  BY <1>1 DEF Build, Unstored, Collection
<1>5. Store(c) => Unsent(c)'
  BY <1>1 DEF Store, Unsent, Collection
<1>6. Send(c) => Sent(c)'
  BY <1>1 DEF Send, Sent, Collection
<1>7. ASSUME NEW m \in Machines, TaskDone(c, m) \/ JoinMachine(c, m) \/ JoinPanic(c, m)
      PROVE  /\ coll[c].stage = "collecting" /\ m \in DOMAIN coll[c].tasks
             /\ coll'[c].stage = "collecting"
  <2>1. coll[c].stage = "collecting" /\ m \in DOMAIN coll[c].tasks
    BY <1>7 DEF TaskDone, JoinMachine, JoinPanic
  <2>2. CASE TaskDone(c, m)
    BY <1>1, <2>1, <2>2 DEF TaskDone, Collection
  <2>3. CASE JoinMachine(c, m)
    <3>1. PICK r \in Respawn(coll[c], m) :
            coll' = [coll EXCEPT ![c] =
              [r EXCEPT !.machines = [n \in DOMAIN @ \cup {m} |->
                                        IF n = m THEN coll[c].tasks[m] ELSE @[n]]]]
      BY <2>3 DEF JoinMachine
    <3>2. r \in Collection /\ r.stage = "collecting"
      BY <2>1, RespawnMeans
    <3> QED BY <1>1, <2>1, <3>1, <3>2 DEF Collection
  <2>4. CASE JoinPanic(c, m)
    <3>1. PICK r \in Respawn(coll[c], m) :
            coll' = [coll EXCEPT ![c] = [r EXCEPT !.errors = @ \cup {"collect_machine"}]]
      BY <2>4 DEF JoinPanic
    <3>2. r \in Collection /\ r.stage = "collecting"
      BY <2>1, RespawnMeans
    <3> QED BY <1>1, <2>1, <3>1, <3>2 DEF Collection
  <2> QED BY <1>7, <2>1, <2>2, <2>3, <2>4
<1> QED BY <1>2, <1>3, <1>4, <1>5, <1>6, <1>7

(* A collection that was started goes through its stages one at a time,    *)
(* never back, and nobody else moves it.                                   *)
LEMMA StageStep ==
  ASSUME IInv, NEW c \in Ids, [Next]_vars
  PROVE  /\ Spawned(c) => Spawned(c)' \/ Asking(c)' \/ Drained(c)'
         /\ Asking(c) => Asking(c)' \/ Drained(c)'
         /\ Drained(c) => Drained(c)' \/ Unstored(c)'
         /\ Unstored(c) => Unstored(c)' \/ Unsent(c)'
         /\ Unsent(c) => Unsent(c)' \/ Sent(c)'
         /\ Sent(c) => Sent(c)'
<1> USE DEF Spawned, Asking, Drained, Unstored, Unsent, Sent
<1>1. coll \in [Ids -> Collection] /\ next_id \in Nat /\ Ids \subseteq Nat
  BY State, Numbers
<1>2. CASE coll[c].stage = "unborn"
  BY <1>2
<1>3. CASE coll'[c] = coll[c]
  BY <1>3
<1>4. ASSUME NEW k \in Clients, RequestStart(k), coll[c].stage # "unborn"
      PROVE  coll'[c] = coll[c]
  <2>1. ~(c > next_id)
    BY <1>4 DEF IInv, Flight
  <2>2. c # next_id + 1
    BY <1>1, <2>1
  <2> QED BY <1>1, <1>4, <2>2 DEF RequestStart
<1>5. ASSUME NEW k \in Clients,
             RequestCached(k) \/ RequestJoin(k) \/ Answer(k) \/ HangUp(k)
      PROVE  coll'[c] = coll[c]
  BY <1>5 DEF RequestCached, RequestJoin, Answer, HangUp
<1>6. ASSUME NEW d \in Ids, d # c,
             Begin(d) \/ Deadline(d) \/ Build(d) \/ Store(d) \/ Send(d)
      PROVE  coll'[c] = coll[c]
  BY <1>1, <1>6, Zenon DEF Begin, Deadline, Build, Store, Send
<1>7. ASSUME NEW d \in Ids, d # c, NEW m \in Machines,
             TaskDone(d, m) \/ JoinMachine(d, m) \/ JoinPanic(d, m)
      PROVE  coll'[c] = coll[c]
  BY <1>1, <1>7 DEF TaskDone, JoinMachine, JoinPanic
<1>8. CASE Tick \/ PoolChanges \/ UNCHANGED vars
  BY <1>3, <1>8 DEF Tick, PoolChanges, vars
<1>9. CASE Begin(c)
  <2>1. Spawned(c) /\ coll'[c].stage = "collecting"
    BY <1>9, TaskEffects, Zenon DEF Begin, Spawned
  <2> QED BY <2>1
<1>10. CASE Deadline(c)
  <2>1. Asking(c) /\ Drained(c)'
    BY <1>10, TaskEffects, Zenon DEF Deadline, Asking
  <2> QED BY <2>1
<1>11. CASE Build(c)
  <2>1. Drained(c) /\ Unstored(c)'
    BY <1>11, TaskEffects DEF Build
  <2> QED BY <2>1
<1>12. CASE Store(c)
  <2>1. Unstored(c) /\ Unsent(c)'
    BY <1>12, TaskEffects DEF Store
  <2> QED BY <2>1
<1>13. CASE Send(c)
  <2>1. Unsent(c) /\ Sent(c)'
    BY <1>13, TaskEffects DEF Send
  <2> QED BY <2>1
<1>14. ASSUME NEW m \in Machines, TaskDone(c, m) \/ JoinMachine(c, m) \/ JoinPanic(c, m)
       PROVE  Asking(c) /\ (Asking(c)' \/ Drained(c)')
  BY <1>14, TaskEffects
<1>15. CASE \E m \in Machines : TaskDone(c, m) \/ JoinMachine(c, m) \/ JoinPanic(c, m)
  BY <1>14, <1>15
<1> HIDE DEF Spawned, Asking, Drained, Unstored, Unsent, Sent
<1>16. CASE \E d \in Ids : \/ Begin(d) \/ Deadline(d) \/ Build(d) \/ Store(d) \/ Send(d)
                           \/ \E m \in Machines :
                                TaskDone(d, m) \/ JoinMachine(d, m) \/ JoinPanic(d, m)
  BY <1>3, <1>6, <1>7, <1>9, <1>10, <1>11, <1>12, <1>13, <1>15, <1>16, Zenon
<1>17. CASE \E k \in Clients : \/ RequestCached(k) \/ RequestJoin(k) \/ RequestStart(k)
                               \/ Answer(k) \/ HangUp(k)
  BY <1>2, <1>3, <1>4, <1>5, <1>17, Zenon
<1> QED BY <1>8, <1>16, <1>17, Zenon DEF Next

Awaits(k, c) == client[k].state = "waiting" /\ client[k].id = c
Returned(k) == client[k].state # "waiting"

(* A caller stays with its collection until it is answered or hangs up.    *)
LEMMA AwaitsStep ==
  ASSUME IInv, NEW k \in Clients, NEW c \in Ids, Awaits(k, c), [Next]_vars
  PROVE  /\ Awaits(k, c)' \/ Returned(k)'
         /\ Answer(k) => Returned(k)'
<1> USE DEF Awaits, Returned
<1>1. client \in [Clients -> Client] /\ client[k] \in Client
  BY State
<1>2. CASE client'[k] = client[k]
  <2>1. ~Answer(k)
    <3>1. Answer(k) => client'[k].state = "answered"
      BY <1>1 DEF Answer, Client
    <3> QED BY <1>2, <3>1
  <2> QED BY <1>2, <2>1
<1>3. ASSUME NEW j \in Clients, j # k,
             RequestCached(j) \/ RequestJoin(j) \/ RequestStart(j) \/ Answer(j) \/ HangUp(j)
      PROVE  client'[k] = client[k]
  BY <1>1, <1>3 DEF RequestCached, RequestJoin, RequestStart, Answer, HangUp, Call
<1>4. ~RequestCached(k) /\ ~RequestJoin(k) /\ ~RequestStart(k)
  BY DEF RequestCached, RequestJoin, RequestStart
<1>5. Answer(k) \/ HangUp(k) => Returned(k)'
  BY <1>1 DEF Answer, HangUp, Client
<1>6. ASSUME NEW d \in Ids,
             \/ Begin(d) \/ Deadline(d) \/ Build(d) \/ Store(d) \/ Send(d)
             \/ \E m \in Machines : TaskDone(d, m) \/ JoinMachine(d, m) \/ JoinPanic(d, m)
      PROVE  client'[k] = client[k]
  BY <1>6, Zenon DEF Begin, Deadline, Build, Store, Send, TaskDone, JoinMachine, JoinPanic
<1>7. Tick \/ PoolChanges \/ UNCHANGED vars => client'[k] = client[k]
  BY DEF Tick, PoolChanges, vars
<1> QED BY <1>2, <1>3, <1>4, <1>5, <1>6, <1>7, Zenon DEF Next

(* Every caller of topology() returns. Its collection begins, is drained   *)
(* by its deadline though no machine replies, is built, stored and sent,   *)
(* and the caller is woken: the value stays in the watch channel, so it    *)
(* does not matter whether it was sent before or after the caller awaited  *)
(* it (telemetry.rs).                                                      *)
THEOREM CallsReturn == Spec /\ []ReadyTasksCanStep => EveryCallReturns
<1> SUFFICES ASSUME NEW k \in Clients
             PROVE  Spec /\ []ReadyTasksCanStep =>
                      (client[k].state = "waiting" ~> client[k].state # "waiting")
  BY DEF EveryCallReturns
<1>1. ASSUME NEW c \in Ids
      PROVE  Spec /\ []ReadyTasksCanStep => [](Awaits(k, c) => <>Returned(k))
  <2>1. IInv /\ Awaits(k, c) /\ [Next]_vars => Awaits(k, c)' \/ Returned(k)'
    BY AwaitsStep
  <2>2. IInv /\ [Next]_vars =>
          /\ Spawned(c) => Spawned(c)' \/ Asking(c)' \/ Drained(c)'
          /\ Asking(c) => Asking(c)' \/ Drained(c)'
          /\ Drained(c) => Drained(c)' \/ Unstored(c)'
          /\ Unstored(c) => Unstored(c)' \/ Unsent(c)'
          /\ Unsent(c) => Unsent(c)' \/ Sent(c)'
          /\ Sent(c) => Sent(c)'
    BY StageStep
  <2>3. /\ IInv /\ <<Begin(c)>>_vars => Asking(c)' \/ Drained(c)'
        /\ IInv /\ <<Deadline(c)>>_vars => Drained(c)'
        /\ IInv /\ <<Build(c)>>_vars => Unstored(c)'
        /\ IInv /\ <<Store(c)>>_vars => Unsent(c)'
        /\ IInv /\ <<Send(c)>>_vars => Sent(c)'
    <3>1. coll'[c].stage = "collecting" => Asking(c)' \/ Drained(c)'
      BY DEF Asking, Drained
    <3> QED BY <3>1, TaskEffects, Zenon
  <2>4. IInv /\ Awaits(k, c) /\ <<Answer(k)>>_vars => Returned(k)'
    <3> SUFFICES ASSUME IInv, Awaits(k, c), Answer(k) PROVE Returned(k)'
      OBVIOUS
    <3>1. Next
      BY Zenon DEF Next
    <3> QED BY <3>1, AwaitsStep
  <2>5. ReadyTasksCanStep =>
          /\ Spawned(c) => CanBegin(c)
          /\ Asking(c) => CanTimeOut(c)
          /\ Drained(c) => CanBuild(c)
          /\ Unstored(c) => CanStore(c)
          /\ Unsent(c) => CanSend(c)
          /\ Awaits(k, c) /\ Sent(c) => CanAnswer(k)
    BY Zenon DEF ReadyTasksCanStep, Awaits, Sent
  <2>6. Fairness => CollectionFairness(c) /\ ClientFairness(k)
    BY DEF Fairness
  <2>7. IInv /\ Awaits(k, c) =>
          Spawned(c) \/ Asking(c) \/ Drained(c) \/ Unstored(c) \/ Unsent(c) \/ Sent(c)
    <3> SUFFICES ASSUME IInv, Awaits(k, c)
                 PROVE  coll[c].stage # "unborn"
      BY State, CollectionType DEF Stages, Spawned, Asking, Drained, Unstored, Unsent, Sent
    <3>1. c <= next_id /\ next_id \in Nat /\ c \in Nat
      BY State, Numbers DEF IInv, Served, Awaits
    <3>2. ~(c > next_id)
      BY <3>1
    <3> QED BY <3>2 DEF IInv, Flight
  <2>8. Spec => []IInv /\ [][Next]_vars /\ CollectionFairness(c) /\ ClientFairness(k)
    BY <2>6, Invariance, PTL DEF Spec
  <2>9. Spec /\ []ReadyTasksCanStep => [](Spawned(c) => <>(Asking(c) \/ Drained(c)))
    BY <2>2, <2>3, <2>5, <2>8, PTL DEF CollectionFairness, CanBegin
  <2>10. Spec /\ []ReadyTasksCanStep => [](Asking(c) => <>Drained(c))
    BY <2>2, <2>3, <2>5, <2>8, PTL DEF CollectionFairness, CanTimeOut
  <2>11. Spec /\ []ReadyTasksCanStep => [](Drained(c) => <>Unstored(c))
    BY <2>2, <2>3, <2>5, <2>8, PTL DEF CollectionFairness, CanBuild
  <2>12. Spec /\ []ReadyTasksCanStep => [](Unstored(c) => <>Unsent(c))
    BY <2>2, <2>3, <2>5, <2>8, PTL DEF CollectionFairness, CanStore
  <2>13. Spec /\ []ReadyTasksCanStep => [](Unsent(c) => <>Sent(c))
    BY <2>2, <2>3, <2>5, <2>8, PTL DEF CollectionFairness, CanSend
  <2>14. Spec /\ []ReadyTasksCanStep =>
           [](Awaits(k, c) => <>(Returned(k) \/ (Awaits(k, c) /\ Sent(c))))
    BY <2>1, <2>7, <2>8, <2>9, <2>10, <2>11, <2>12, <2>13, PTL
  <2>15. Spec /\ []ReadyTasksCanStep => [](Awaits(k, c) /\ Sent(c) => <>Returned(k))
    BY <2>1, <2>2, <2>4, <2>5, <2>8, PTL DEF ClientFairness, CanAnswer
  <2> QED BY <2>14, <2>15, PTL
<1>2. Spec /\ []ReadyTasksCanStep => \A c \in Ids : [](Awaits(k, c) => <>Returned(k))
  BY <1>1
<1>3. (\A c \in Ids : [](Awaits(k, c) => <>Returned(k)))
        => [](\A c \in Ids : (Awaits(k, c) => <>Returned(k)))
  OBVIOUS
<1>4. (\A c \in Ids : (Awaits(k, c) => <>Returned(k)))
        => ((\E c \in Ids : Awaits(k, c)) => <>Returned(k))
  OBVIOUS
<1>5. IInv /\ client[k].state = "waiting" => \E c \in Ids : Awaits(k, c)
  BY DEF IInv, Served, Awaits
<1>6. Returned(k) => client[k].state # "waiting"
  BY DEF Returned
<1> QED BY <1>2, <1>3, <1>4, <1>5, <1>6, Invariance, PTL
=============================================================================
