--------------------------- MODULE MCControllers ----------------------------
(***************************************************************************)
(* Controllers for TLC. The build of c2 adds a migration that alters the   *)
(* runs to that of c1, or has also changed the one they share. Two         *)
(* machines are seen, missed by a complete collection (the gateway was     *)
(* restarted), and seen again: transactions of the second and the third    *)
(* collection may lock the rows in opposite orders. The second of them is  *)
(* another controller's, or one that the same controller left behind.      *)
(***************************************************************************)
EXTENDS Controllers

CONSTANTS c1, c2

MCBuilds ==
  {[c \in Controllers |-> IF c = c1 THEN <<<<1, "a">>>> ELSE <<<<1, x>>, <<2, "a">>>>] :
     x \in {"a", "b"}}

MCHistories ==
  {<<[listed |-> {1, 2}, complete |-> FALSE], [listed |-> {}, complete |-> TRUE],
     [listed |-> {1, 2}, complete |-> FALSE]>>}
=============================================================================
