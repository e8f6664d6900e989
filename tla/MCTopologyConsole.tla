------------------------- MODULE MCTopologyConsole --------------------------
(* TopologyConsole for TLC: an empty database, or three machines, two of   *)
(* them active, and a collection in which one leaves and one comes; when   *)
(* that is committed late, either may not happen.                          *)
EXTENDS TopologyConsole

MCInitialTables ==
  {[rows |-> <<"unknown", "unknown", "unknown">>, runs |-> 0],
   [rows |-> <<"active", "inactive", "active">>, runs |-> 1]}

MCSnapshots == {[seen |-> {2, 3}, complete |-> TRUE]}
=============================================================================
