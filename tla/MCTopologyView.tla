--------------------------- MODULE MCTopologyView ---------------------------
(***************************************************************************)
(* TopologyView for TLC. Machine 1 is seen with its instance, with newer   *)
(* metrics, and its instance has moved to machine 2; one list has machine  *)
(* 1 and the peer twice, as overlapping requests leave it. The search      *)
(* switches between the older and the newer record.                        *)
(***************************************************************************)
EXTENDS TopologyView

Row(m, links, v) == [machine_id |-> m, links |-> links, metrics |-> v]

Link == {<<"i", "p">>}

One == Row(1, Link, 1)
OneNewer == Row(1, Link, 2)
Two == Row(2, Link, 2)

MCRows == {One, OneNewer, Two}

MCLists == {<<>>, <<One>>, <<One, OneNewer, Two>>}

MCSearches == {MCRows, {OneNewer, Two}}
=============================================================================
