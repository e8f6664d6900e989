--------------------------- MODULE MCTopologyStore ---------------------------
(* TopologyStore for TLC. Collection k runs from 2k to 2k + 1, so the      *)
(* windows of the collections are disjoint, as the collector's are.        *)
EXTENDS TopologyStore

Blank == [i \in Instances |-> None]

SnapshotOf(k, ms, errs) ==
  [collection_id |-> k, started_at |-> 2 * k, completed_at |-> 2 * k + 1,
   well_formed |-> TRUE, machines |-> ms, errors |-> errs]

(* A list that could not be read, and a machine seen after completion (the *)
(* clock stepped back): Validate refuses both.                             *)
InvalidSnapshots ==
  {[SnapshotOf(1, [m \in Machines |-> None], {}) EXCEPT !.well_formed = FALSE],
   SnapshotOf(1, [m \in Machines |-> collect_machine(4, {}, Blank)], {})}

-----------------------------------------------------------------------------
(* Activity: which machines and instances come and go. A machine is absent,*)
(* has an unreadable list, or lists some instances. Observation times and  *)
(* a failing get_stats only vary when an instance is listed by two         *)
(* machines, the one case where they matter. The last collection ran into  *)
(* no deadline; it may be delivered first.                                 *)
IsLast(k) == \A c \in Collections : c <= k

ActivityViews(k) ==
  LET listing(now, failed, on) ==
        collect_machine(now, {}, [i \in Instances |->
          IF i \in on THEN collect_instance(now, failed, [p \in {} |-> None], {}, Metrics)
          ELSE None])
  IN  {None, collect_machine(2 * k, {"list_network_instances"}, Blank)}
        \cup {listing(now, failed, on) : now \in 2 * k .. 2 * k + 1,
                failed \in {{}, {"get_stats"}}, on \in SUBSET Instances}

IsPlain(k, ms) ==
  /\ \A m \in Machines : ms[m] # None =>
       /\ ms[m].observed_at = 2 * k
       /\ \A i \in Instances : ms[m].instances[i] # None => ms[m].instances[i].errors = {}
  /\ \A i \in Instances : \E m \in Machines : ms[m] = None \/ ms[m].instances[i] = None

(* The clones' series collide unless get_stats failed on the last machine. *)
IsCloned(k, ms) ==
  /\ \A i \in Instances, m \in Machines : ms[m] # None /\ ms[m].instances[i] # None
  /\ \E m \in Machines : ms[m].observed_at = 2 * k
  /\ \A i \in Instances, m \in Machines :
       (\E n \in Machines : m < n) => ms[m].instances[i].errors = {}

ActivitySnapshots ==
  InvalidSnapshots \cup
  UNION {{SnapshotOf(k, ms, errs) :
            ms \in {f \in [Machines -> ActivityViews(k)] : IsPlain(k, f)},
            errs \in IF IsLast(k) THEN {{}} ELSE {{}, {"collect_topology"}}}
         : k \in Collections} \cup
  UNION {{SnapshotOf(k, ms, {}) :
            ms \in {f \in [Machines -> ActivityViews(k)] : IsCloned(k, f)}} : k \in Collections \cap {2}}

-----------------------------------------------------------------------------
(* Links: the first machine with its instance, every outcome of the RPCs   *)
(* that feed the peer links.                                               *)
LinkViews(k) ==
  {collect_instance(2 * k, failed, routes, conns, {}) :
     failed \in SUBSET {"list_peers", "list_routes"},
     routes \in UNION {[on -> {"direct", "relayed"}] : on \in SUBSET Peers},
     conns \in {{}, Peers}}

LinkSnapshots ==
  UNION {{SnapshotOf(k, [m \in Machines |->
            IF m = 1 THEN collect_machine(2 * k, {}, [i \in Instances |-> v]) ELSE None], {})
            : v \in LinkViews(k)} : k \in Collections}

(* Both questions at once, for in-order delivery; only the second          *)
(* collection may run into its deadline.                                   *)
InOrderSnapshots ==
  {s \in ActivitySnapshots \cup LinkSnapshots : s.collection_id # 2 => s.errors = {}}
=============================================================================
