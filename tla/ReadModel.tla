----------------------------- MODULE ReadModel ------------------------------
(***************************************************************************)
(* The current-topology query of the controller (readmodel/store.go) as    *)
(* operators on committed table states. One page is read with several      *)
(* queries, each on its own snapshot of the database: the latest           *)
(* collection, then the machines, then the instances with nodes and peers. *)
(***************************************************************************)
EXTENDS Naturals, FiniteSets

CONSTANTS
  Machines,   \* machine ids; UUID order is the order of the numbers
  PageLimit,  \* the limit parameter of the query
  None        \* no cursor, no page

ASSUME MachinesAssumption == Machines \subseteq Nat /\ IsFiniteSet(Machines)
ASSUME PageLimitAssumption == PageLimit \in Nat \ {0}
ASSUME NoneAssumption == None \notin Machines

(* What a row of the machines table tells a reader: no row yet, or active. *)
RowStates == {"unknown", "active", "inactive"}

(* The active parameter of the API: absent, true or false.                 *)
ActiveFilters == {"", "true", "false"}

Matches(row, active) ==
  \/ active = "" /\ row # "unknown"
  \/ active = "true" /\ row = "active"
  \/ active = "false" /\ row = "inactive"

(* WHERE active = $1 AND machine_id > $3.                                  *)
Hits(rows, active, cursor) ==
  {m \in Machines : Matches(rows[m], active) /\ (cursor = None \/ m > cursor)}

(* The row's place in ORDER BY machine_id.                                 *)
Rank(hits, m) == Cardinality({n \in hits : n < m})

(* The first PageLimit rows.                                               *)
PageIds(hits) == {m \in hits : Rank(hits, m) < PageLimit}

(* Mutant: the cursor is the row read beyond the limit.                    *)
NextCursorBeyond(hits) ==
  IF Cardinality(hits) > PageLimit
  THEN CHOOSE m \in hits : Rank(hits, m) = PageLimit
  ELSE None

(* With a row beyond the limit, the last row of the page.                  *)
NextCursor(hits) ==
  IF Cardinality(hits) > PageLimit
  THEN CHOOSE m \in PageIds(hits) : \A n \in PageIds(hits) : n <= m
  ELSE None
=============================================================================
