---------------------------- MODULE LiveTopology ----------------------------
(***************************************************************************)
(* What the controller promises its readers, without timestamps, tables or *)
(* transactions: the current topology is the last snapshot, except that    *)
(* whatever the snapshot could not read is kept from before. The contract  *)
(* words it as "a partial error is not a machine going offline; the        *)
(* controller must not delete the last successful state because of it".    *)
(* TopologyStore implements this when snapshots arrive in order.           *)
(***************************************************************************)
EXTENDS TopologyContract

CONSTANT Snapshots

VARIABLES
  published,  \* the snapshot published for each collection, None before
  online,     \* the active machines
  host,       \* the machine each active instance runs on, None if inactive
  links       \* the peers each instance has a current link to

vars == <<published, online, host, links>>

TypeOK ==
  /\ published \in [Collections -> Snapshots \cup {None}]
  /\ online \subseteq Machines
  /\ host \in [Instances -> Machines \cup {None}]
  /\ links \in [Instances -> SUBSET Peers]

Init ==
  /\ published = [c \in Collections |-> None]
  /\ online = {}
  /\ host = [i \in Instances |-> None]
  /\ links = [i \in Instances |-> {}]

(* The snapshot says nothing about the instances of machine m.             *)
Unread(s, m) ==
  IF m \in Reported(s) THEN hasOperationError(s.machines[m].errors, "list_network_instances")
  ELSE s.errors # {}

LinkedPeers(v) == {p \in Peers : v.peers[p] # None}

LinksAfter(s, i, m) ==
  LET v == s.machines[m].instances[i] IN
  LinkedPeers(v) \cup (IF hasOperationError(v.errors, "list_routes") THEN links[i] ELSE {})

(* An instance cloned onto two machines is attributed to either of them,   *)
(* with a mixture of their links.                                          *)
Publish(s) ==
  /\ published[s.collection_id] = None
  /\ published' = [published EXCEPT ![s.collection_id] = s]
  /\ online' = Reported(s) \cup (IF s.errors # {} THEN online ELSE {})
  /\ host' \in [Instances -> Machines \cup {None}]
  /\ links' \in [Instances -> SUBSET Peers]
  /\ \A i \in Instances :
       /\ Hosts(s, i) # {} => host'[i] \in Hosts(s, i)
       /\ Hosts(s, i) = {} =>
            /\ host'[i] = IF host[i] # None /\ Unread(s, host[i]) THEN host[i] ELSE None
            /\ links'[i] = links[i]
       /\ \A m \in Hosts(s, i) :
            Hosts(s, i) = {m} => links'[i] = LinksAfter(s, i, m)

(* The snapshot is named by its entry in published', which TLC evaluates   *)
(* without a search through Snapshots.                                     *)
Next ==
  \E c \in Collections :
    /\ published[c] = None
    /\ published'[c] \in Snapshots
    /\ Publish(published'[c])

Spec == Init /\ [][Next]_vars

=============================================================================
