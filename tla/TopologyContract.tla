-------------------------- MODULE TopologyContract --------------------------
(***************************************************************************)
(* The topology snapshot `nexustier.topology.v1` that the gateway produces *)
(* (telemetry.rs) and the controller consumes (gatewayclient/types.go).    *)
(*                                                                         *)
(* Lists of views keyed by an identifier are functions into views or None; *)
(* a list of telemetry errors is the set of the operations that failed.    *)
(* Texts, addresses and byte counts are left out: the controller only      *)
(* copies them, so a row remembers the collection it copied them from.     *)
(***************************************************************************)
EXTENDS Naturals

CONSTANTS
  Collections,  \* collection ids (UUIDs the gateway draws)
  Machines,     \* machine ids; UUIDs are compared, so they are naturals
  Instances,    \* network instance ids
  Peers,        \* EasyTier peer ids
  Metrics,      \* metric series (name and labels) of an instance
  None          \* a missing view, a missing row, a NULL

ASSUME MachinesAssumption == Machines \subseteq Nat

SnapshotErrors == {"collect_topology", "collect_machine"}
MachineErrors  == {"list_network_instances"}
InstanceErrors == {"list_peers", "list_routes", "show_node_info", "get_stats"}

(* Where a latency figure comes from: a direct connection's round trip, a  *)
(* relayed route's path latency, or nowhere.                               *)
Latency == {"rtt", "path", "none"}

PeerView == [direct : BOOLEAN, latency : Latency]

InstanceView ==
  [observed_at : Nat,
   node        : BOOLEAN,
   peers       : [Peers -> PeerView \cup {None}],
   metrics     : SUBSET Metrics,
   errors      : SUBSET InstanceErrors]

MachineView ==
  [observed_at : Nat,
   instances   : [Instances -> InstanceView \cup {None}],
   errors      : SUBSET MachineErrors]

Snapshot ==
  [collection_id : Collections,
   started_at    : Nat,
   completed_at  : Nat,
   well_formed   : BOOLEAN,
   machines      : [Machines -> MachineView \cup {None}],
   errors        : SUBSET SnapshotErrors]

(* None is none of the values it stands in for.                            *)
ASSUME NoneAssumption ==
  None \notin PeerView \cup InstanceView \cup MachineView \cup Snapshot

-----------------------------------------------------------------------------
(* The machines a snapshot lists, the instances a machine's view lists,    *)
(* and the machines of a snapshot that list a given instance.              *)
Reported(s)  == {m \in Machines : s.machines[m] # None}
Listed(v)    == {i \in Instances : v.instances[i] # None}
Hosts(s, i)  == {m \in Reported(s) : i \in Listed(s.machines[m])}

hasOperationError(errors, operation) == operation \in errors

(* Snapshot.Validate. well_formed stands for the schema version, the       *)
(* timestamp range, collected_at = completed_at and the non-nil ids.       *)
Validate(s) ==
  /\ s.well_formed
  /\ s.started_at <= s.completed_at
  /\ \A m \in Reported(s) :
       /\ s.machines[m].observed_at <= s.completed_at
       /\ \A i \in Listed(s.machines[m]) :
            s.machines[m].instances[i].observed_at <= s.completed_at

-----------------------------------------------------------------------------
(* The gateway's side: one instance's view from the four RPCs it makes.    *)
(*   routes : peers that have a route -> "direct" (cost 1) or "relayed"    *)
(*   conns  : the peers with a live connection in list_peers               *)
(* A failed RPC contributes an empty list and its operation as an error.   *)
join_peers_and_routes(routes, conns) ==
  [p \in Peers |->
     IF p \notin DOMAIN routes THEN None
     ELSE [direct  |-> routes[p] = "direct",
           latency |-> IF routes[p] # "direct" THEN "path"
                       ELSE IF p \in conns THEN "rtt" ELSE "none"]]

collect_instance(now, failed, routes, conns, metrics) ==
  [observed_at |-> now,
   node        |-> "show_node_info" \notin failed,
   peers       |-> join_peers_and_routes(
                     IF "list_routes" \in failed THEN [p \in {} |-> None] ELSE routes,
                     IF "list_peers" \in failed THEN {} ELSE conns),
   metrics     |-> IF "get_stats" \in failed THEN {} ELSE metrics,
   errors      |-> failed]

(* A machine whose list_network_instances fails is listed without any      *)
(* instance; its failed list is the only error. (A session without a       *)
(* heartbeat would be listed under the nil id; pooled sessions have one,   *)
(* see PooledSessionsAreIdentified in SessionGateway.)                     *)
collect_machine(now, failed, instances) ==
  [observed_at |-> now,
   instances   |-> IF "list_network_instances" \in failed
                   THEN [i \in Instances |-> None] ELSE instances,
   errors      |-> failed]
=============================================================================
