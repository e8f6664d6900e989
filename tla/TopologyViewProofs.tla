------------------------ MODULE TopologyViewProofs -------------------------
(***************************************************************************)
(* Theorems about TopologyView, for any records, lists, searches, pointers *)
(* and number of ticks.                                                    *)
(***************************************************************************)
EXTENDS TopologyView, FiniteSetTheorems, WellFoundedInduction, TLAPS

(* Whoever drags or pans has a pointer captured; a captured one is down.   *)
(* NoGhostDrag is not inductive without it: a pointer that presses the     *)
(* background during another's drag is not captured, and may be released   *)
(* elsewhere.                                                              *)
Captured ==
  /\ captured \subseteq down
  /\ dragging # None \/ panning => captured # {}

IInv == PaintIsUpToDate /\ Captured

LEMMA InitInvariant == Init => IInv
BY DEF Init, IInv, PaintIsUpToDate, Captured

LEMMA ReactSteps ==
  ASSUME IInv,
         \/ \E list \in Lists : Refresh(list)
         \/ machinesEffect
         \/ \E q \in Searches : SetSearch(q)
         \/ SelectRow \/ SelectNode \/ FilterChange
  PROVE  IInv'
<1>1. ASSUME NEW list \in Lists, Refresh(list) PROVE IInv'
  BY <1>1 DEF IInv, PaintIsUpToDate, Captured, Refresh, pointers
<1>2. CASE machinesEffect
  BY <1>2 DEF IInv, PaintIsUpToDate, Captured, machinesEffect, Rebuild, Touch, pointers
<1>3. ASSUME NEW q \in Searches, SetSearch(q) PROVE IInv'
  BY <1>3 DEF IInv, PaintIsUpToDate, Captured, SetSearch, Rebuild, Touch, pointers
<1>4. ASSUME NEW key, SetSelectedKey(key) PROVE IInv'
  BY <1>4 DEF IInv, PaintIsUpToDate, Captured, SetSelectedKey, Touch, pointers
<1> QED BY <1>1, <1>2, <1>3, <1>4 DEF SelectRow, SelectNode, FilterChange

LEMMA PointerSteps ==
  ASSUME IInv, NEW p \in Pointers,
         \/ \E k \in Keys : NodePointerDown(p, k)
         \/ onPointerDown(p) \/ onPointerUp(p) \/ ReleaseElsewhere(p)
  PROVE  IInv'
<1>1. ASSUME NEW k \in Keys, NodePointerDown(p, k) PROVE IInv'
  BY <1>1 DEF IInv, PaintIsUpToDate, Captured, NodePointerDown, app
<1>2. CASE onPointerDown(p)
  BY <1>2 DEF IInv, PaintIsUpToDate, Captured, onPointerDown, app
<1>3. CASE onPointerUp(p)
  BY <1>3 DEF IInv, PaintIsUpToDate, Captured, onPointerUp, app
<1>4. CASE ReleaseElsewhere(p)
  BY <1>4 DEF IInv, PaintIsUpToDate, Captured, ReleaseElsewhere, app
<1> QED BY <1>1, <1>2, <1>3, <1>4

LEMMA CanvasSteps ==
  ASSUME IInv, onPointerMove \/ onWheel \/ applyZoom \/ resetView \/ frame
  PROVE  IInv'
<1>1. CASE onPointerMove
  BY <1>1 DEF IInv, PaintIsUpToDate, Captured, onPointerMove, Touch, app, pointers
<1>2. CASE onWheel \/ applyZoom
  BY <1>2 DEF IInv, PaintIsUpToDate, Captured, onWheel, applyZoom, Touch, app, pointers
<1>3. CASE resetView
  BY <1>3 DEF IInv, PaintIsUpToDate, Captured, resetView, Touch, app, pointers
<1>4. CASE frame
  BY <1>4 DEF IInv, PaintIsUpToDate, Captured, frame, render, app, pointers
<1> QED BY <1>1, <1>2, <1>3, <1>4

LEMMA StepInvariant == IInv /\ [Next]_vars => IInv'
<1> SUFFICES ASSUME IInv, [Next]_vars PROVE IInv'
  OBVIOUS
<1>1. CASE Next
  BY <1>1, ReactSteps, PointerSteps, CanvasSteps DEF Next
<1>2. CASE UNCHANGED vars
  BY <1>2 DEF vars, IInv, PaintIsUpToDate, Captured
<1> QED BY <1>1, <1>2

LEMMA Invariance == Spec => []IInv
BY InitInvariant, StepInvariant, PTL DEF Spec

(* Unless a drawing is asked for, the canvas shows the current nodes and   *)
(* nothing visible has changed since it was drawn (TopologyGraph.jsx).     *)
THEOREM Painted == Spec => []PaintIsUpToDate
<1>1. IInv => PaintIsUpToDate BY DEF IInv
<1> QED BY <1>1, Invariance, PTL

(* Any number of pointers, pressed, taken over and released in any order,  *)
(* leave no drag and no pan behind: because every press that begins one    *)
(* captures its pointer, and any release ends it.                          *)
THEOREM NoGhosts == Spec => []NoGhostDrag
<1>1. IInv => NoGhostDrag BY DEF IInv, Captured, NoGhostDrag
<1> QED BY <1>1, Invariance, PTL

-----------------------------------------------------------------------------
(* What a drag holds. DragHoldsItsNode is not inductive alone: that a      *)
(* press finds the node it was drawn from needs that live elements show    *)
(* the current nodes, and that a press between a rebuild and its drawing   *)
(* holds nothing needs that nothing is fixed then.                         *)
DragInv ==
  /\ DragHoldsItsNode
  /\ dragging \in Drag \cup {None} /\ live \in BOOLEAN
  /\ live => drawn = nodes
  /\ ~live => fixed = {}

LEMMA DragInit == Init => DragInv
BY DEF Init, DragInv, DragHoldsItsNode

LEMMA RebuildLetsGo ==
  ASSUME DragInv, NEW list, Rebuild(list)
  PROVE  DragInv'
<1>1. /\ fixed' = {} /\ live' = FALSE
      /\ dragging' = IF dragging = None THEN None ELSE [dragging EXCEPT !.attached = FALSE]
  BY DEF Rebuild
<1>2. dragging # None => dragging \in Drag /\ dragging' \in Drag /\ dragging'.attached = FALSE
  BY <1>1 DEF DragInv, Drag
<1> QED BY <1>1, <1>2 DEF DragInv, DragHoldsItsNode

LEMMA DragStep == DragInv /\ [Next]_vars => DragInv'
<1> SUFFICES ASSUME DragInv, [Next]_vars PROVE DragInv'
  OBVIOUS
<1> USE DEF DragInv, DragHoldsItsNode
<1>1. ASSUME UNCHANGED <<nodes, fixed, dragging, drawn, live>> PROVE DragInv'
  BY <1>1
<1>2. ASSUME NEW list \in Lists, Refresh(list) PROVE DragInv'
  BY <1>1, <1>2 DEF Refresh
<1>3. CASE machinesEffect
  BY <1>3, RebuildLetsGo DEF machinesEffect
<1>4. ASSUME NEW q \in Searches, SetSearch(q) PROVE DragInv'
  BY <1>4, RebuildLetsGo DEF SetSearch
<1>5. ASSUME NEW key, SetSelectedKey(key) PROVE DragInv'
  BY <1>1, <1>5 DEF SetSelectedKey
<1>6. CASE SelectRow \/ SelectNode \/ FilterChange
  BY <1>5, <1>6 DEF SelectRow, SelectNode, FilterChange
<1>7. ASSUME NEW p \in Pointers, NEW k \in Keys, NodePointerDown(p, k) PROVE DragInv'
  <2>1. /\ dragging' = [key |-> k, attached |-> live, moved |-> FALSE]
        /\ fixed' = (IF live THEN fixed \cup {k} ELSE fixed)
        /\ k \in DOMAIN drawn /\ nodes' = nodes /\ drawn' = drawn /\ live' = live
    BY <1>7 DEF NodePointerDown
  <2>2. CASE live = TRUE BY <2>1, <2>2 DEF Drag
  <2>3. CASE live = FALSE BY <2>1, <2>3 DEF Drag
  <2> QED BY <2>2, <2>3
<1>8. ASSUME NEW p \in Pointers, onPointerDown(p) \/ ReleaseElsewhere(p) PROVE DragInv'
  BY <1>1, <1>8 DEF onPointerDown, ReleaseElsewhere
<1>9. ASSUME NEW p \in Pointers, onPointerUp(p) PROVE DragInv'
  BY <1>9 DEF onPointerUp
<1>10. CASE onPointerMove
  <2>1. /\ UNCHANGED <<nodes, fixed, drawn, live>>
        /\ dragging' = IF dragging = None THEN None ELSE [dragging EXCEPT !.moved = TRUE]
    BY <1>10 DEF onPointerMove
  <2>2. dragging # None =>
          /\ dragging' \in Drag
          /\ dragging'.attached = dragging.attached /\ dragging'.key = dragging.key
    BY <2>1 DEF Drag
  <2> QED BY <2>1, <2>2
<1>11. CASE onWheel \/ applyZoom \/ resetView
  BY <1>1, <1>11 DEF onWheel, applyZoom, resetView
<1>12. CASE frame
  BY <1>12 DEF frame, render
<1>13. CASE UNCHANGED vars
  BY <1>1, <1>13 DEF vars
<1> QED
  BY <1>2, <1>3, <1>4, <1>6, <1>7, <1>8, <1>9, <1>10, <1>11, <1>12, <1>13 DEF Next

(* Whoever presses, takes over and releases what, and however refreshes    *)
(* and drawings fall in between, a drag in progress holds its node while   *)
(* that is a node, and nothing afterwards (TopologyGraph.jsx).             *)
THEOREM DragHolds == Spec => []DragHoldsItsNode
<1>1. DragInv => DragHoldsItsNode BY DEF DragInv
<1> QED BY DragInit, DragStep, <1>1, PTL DEF Spec

-----------------------------------------------------------------------------
(* Lists of rows, searched or not, and the graph of one.                   *)
RowList(list) ==
  /\ IsFiniteSet(DOMAIN list) /\ DOMAIN list \subseteq Nat
  /\ \A i \in DOMAIN list : list[i] \in Rows

(* i is the first row of the list that has the key.                        *)
FirstWith(list, k, i) ==
  /\ i \in DOMAIN list /\ k \in KeysOf(list[i])
  /\ \A j \in DOMAIN list : k \in KeysOf(list[j]) => i <= j

LEMMA ListsAreRowLists ==
  ASSUME NEW list \in Lists
  PROVE  RowList(list)
<1>1. list \in Seq(Rows)
  BY ListsAssumption
<1>2. DOMAIN list = 1 .. Len(list) /\ Len(list) \in Nat
  BY <1>1
<1>3. IsFiniteSet(1 .. Len(list))
  BY <1>2, FS_Interval
<1> QED BY <1>1, <1>2, <1>3 DEF RowList

LEMMA Filtering ==
  ASSUME NEW list \in Lists, NEW q \in Searches
  PROVE  /\ RowList(filtered(list, q))
         /\ DOMAIN filtered(list, q) \subseteq DOMAIN list
         /\ \A i \in DOMAIN filtered(list, q) : filtered(list, q)[i] = list[i]
         /\ q = Rows => DOMAIN filtered(list, q) = DOMAIN list
<1>1. RowList(list)
  BY ListsAreRowLists
<1>2. /\ DOMAIN filtered(list, q) = {i \in DOMAIN list : list[i] \in q}
      /\ \A i \in DOMAIN filtered(list, q) : filtered(list, q)[i] = list[i]
  BY DEF filtered
<1>3. DOMAIN filtered(list, q) \subseteq DOMAIN list
  BY <1>2
<1>4. IsFiniteSet(DOMAIN filtered(list, q))
  BY <1>1, <1>3, FS_Subset DEF RowList
<1> QED BY <1>1, <1>2, <1>3, <1>4 DEF RowList

LEMMA LeastNumber ==
  ASSUME NEW T \in SUBSET Nat, T # {}
  PROVE  \E x \in T : \A y \in T : x <= y
<1>1. \E x \in T : \A y \in T : ~(<<y, x>> \in OpToRel(<, Nat))
  BY NatLessThanWellFounded, WFMin
<1>2. \A x, y \in Nat : x < y => <<x, y>> \in OpToRel(<, Nat)
  BY DEF OpToRel
<1>3. PICK x \in T : \A y \in T : ~(<<y, x>> \in OpToRel(<, Nat))
  BY <1>1
<1>4. \A y \in T : ~(y < x) /\ x \in Nat /\ y \in Nat
  BY <1>2, <1>3
<1> QED BY <1>4

LEMMA FirstExists ==
  ASSUME NEW list, RowList(list), NEW k, \E i \in DOMAIN list : k \in KeysOf(list[i])
  PROVE  \E i \in DOMAIN list : FirstWith(list, k, i)
<1> DEFINE T == {i \in DOMAIN list : k \in KeysOf(list[i])}
<1>1. T \in SUBSET Nat /\ T # {}
  BY DEF RowList
<1>2. \E x \in T : \A y \in T : x <= y
  BY <1>1, LeastNumber
<1> QED BY <1>2 DEF FirstWith

(* Keys that name a machine and keys that name a peer.                     *)
LEMMA KeyShapes ==
  ASSUME NEW row \in Rows, NEW k \in KeysOf(row)
  PROVE  \/ k = MachineKey(row) /\ k[1] = "m" /\ k[2] = row.machine_id
         \/ /\ k \in PeerKeys(row) /\ k[1] = "p" /\ <<k[2], k[3]>> \in row.links
            /\ k = <<"p", k[2], k[3]>>
<1>1. CASE k = MachineKey(row)
  BY <1>1 DEF MachineKey
<1>2. CASE k \in PeerKeys(row)
  <2>1. PICK l \in row.links : k = <<"p", l[1], l[2]>>
    BY <1>2 DEF PeerKeys
  <2>2. l = <<l[1], l[2]>>
    BY <2>1, RowsAssumption
  <2>3. k[1] = "p" /\ k[2] = l[1] /\ k[3] = l[2]
    BY <2>1
  <2> QED BY <1>2, <2>1, <2>2, <2>3
<1> QED BY <1>1, <1>2 DEF KeysOf

(* A key belongs to a row exactly if resolveSelection would take the row.  *)
LEMMA KeyMatches ==
  ASSUME NEW row \in Rows, NEW k \in Keys
  PROVE  k \in KeysOf(row) <=>
           IF k[1] = "m" THEN row.machine_id = k[2] ELSE <<k[2], k[3]>> \in row.links
<1>1. PICK other \in Rows : k \in KeysOf(other)
  BY DEF Keys
<1>2. CASE k = MachineKey(other) /\ k[1] = "m" /\ k[2] = other.machine_id
  <2>1. k \in KeysOf(row) => row.machine_id = k[2]
    BY <1>2, KeyShapes
  <2>2. row.machine_id = k[2] => k = MachineKey(row)
    BY <1>2 DEF MachineKey
  <2> QED BY <1>2, <2>1, <2>2 DEF KeysOf
<1>3. CASE k[1] = "p" /\ k = <<"p", k[2], k[3]>>
  <2>1. k \in KeysOf(row) => <<k[2], k[3]>> \in row.links
    BY <1>3, KeyShapes
  <2>2. ASSUME <<k[2], k[3]>> \in row.links PROVE k \in PeerKeys(row)
    <3> DEFINE l == <<k[2], k[3]>>
    <3>1. k = <<"p", l[1], l[2]>>
      BY <1>3
    <3> QED BY <2>2, <3>1 DEF PeerKeys
  <2> QED BY <1>3, <2>1, <2>2 DEF KeysOf
<1> QED BY <1>1, <1>2, <1>3, KeyShapes

(* buildGraph gives a key the first row that has it.                       *)
LEMMA GraphNodes ==
  ASSUME NEW list, RowList(list)
  PROVE  /\ \A k : k \in DOMAIN buildGraph(list) <=>
                    \E i \in DOMAIN list : k \in KeysOf(list[i])
         /\ DOMAIN buildGraph(list) \subseteq Keys
         /\ \A k \in DOMAIN buildGraph(list) :
              \E i \in DOMAIN list : FirstWith(list, k, i) /\ buildGraph(list)[k] = list[i]
<1>1. DOMAIN buildGraph(list) = UNION {KeysOf(list[i]) : i \in DOMAIN list}
  BY DEF buildGraph
<1>2. /\ \A k : k \in DOMAIN buildGraph(list) <=> \E i \in DOMAIN list : k \in KeysOf(list[i])
      /\ DOMAIN buildGraph(list) \subseteq Keys
  BY <1>1 DEF RowList, Keys
<1>3. ASSUME NEW k \in DOMAIN buildGraph(list)
      PROVE  \E i \in DOMAIN list : FirstWith(list, k, i) /\ buildGraph(list)[k] = list[i]
  <2> DEFINE Fresh(i) == k \in KeysOf(list[i]) \ Seen(list, i)
             first == CHOOSE i \in DOMAIN list : Fresh(i)
  <2>1. PICK i \in DOMAIN list : FirstWith(list, k, i)
    BY <1>1, <1>3, FirstExists
  <2>2. Fresh(i)
    BY <2>1 DEF FirstWith, Seen, RowList
  <2>3. first \in DOMAIN list /\ Fresh(first)
    <3> HIDE DEF Fresh
    <3> QED BY <2>2
  <2>4. buildGraph(list)[k] = list[first]
    BY <1>1, <1>3 DEF buildGraph
  <2> HIDE DEF first
  <2>5. FirstWith(list, k, first)
    <3>1. \A j \in DOMAIN list : k \in KeysOf(list[j]) => ~(j < first)
      BY <2>3 DEF Seen
    <3> QED BY <2>3, <3>1 DEF FirstWith, RowList
  <2> QED BY <2>3, <2>4, <2>5
<1> QED BY <1>1, <1>2, <1>3

(* resolveSelection gives it the first row as well.                        *)
LEMMA Resolves ==
  ASSUME NEW list, RowList(list), NEW k \in Keys, NEW i \in DOMAIN list, FirstWith(list, k, i)
  PROVE  resolveSelection(k, list) = list[i]
<1> DEFINE found == {j \in DOMAIN list :
                      IF k[1] = "m" THEN list[j].machine_id = k[2]
                      ELSE <<k[2], k[3]>> \in list[j].links}
<1>1. k # None
  BY NoneAssumption
<1>2. \A j \in DOMAIN list : j \in found <=> k \in KeysOf(list[j])
  BY KeyMatches DEF RowList
<1>3. i \in found /\ found \subseteq Nat /\ \A j \in found : i <= j
  BY <1>2 DEF FirstWith, RowList
<1>4. resolveSelection(k, list) = list[CHOOSE j \in found : \A n \in found : j <= n]
  BY <1>1, <1>3 DEF resolveSelection
<1> HIDE DEF found
<1>5. (CHOOSE j \in found : \A n \in found : j <= n) = i
  <2>1. \A j \in found : (\A n \in found : j <= n) => j = i
    BY <1>3
  <2> QED BY <1>3, <2>1
<1> QED BY <1>4, <1>5

-----------------------------------------------------------------------------
(* The cards. A machine's node has a row, and two rows two nodes unless    *)
(* they are of the same machine; the same for peers and links.             *)
LEMMA MachinesCounted ==
  ASSUME NEW list, RowList(list)
  PROVE  LET drawnMachines == {k \in DOMAIN buildGraph(list) : k[1] = "m"}
         IN  /\ Cardinality(drawnMachines) <= Cardinality(DOMAIN list)
             /\ Unambiguous(list) => Cardinality(drawnMachines) = Cardinality(DOMAIN list)
<1> DEFINE D == DOMAIN list
           M == {k \in DOMAIN buildGraph(list) : k[1] = "m"}
           f == [i \in D |-> MachineKey(list[i])]
<1>1. \A i \in D : MachineKey(list[i]) \in KeysOf(list[i]) /\ MachineKey(list[i])[1] = "m"
  BY DEF KeysOf, MachineKey
<1>2. f \in [D -> M]
  BY <1>1, GraphNodes
<1>3. ASSUME NEW k \in M PROVE \E i \in D : f[i] = k
  <2>1. PICK i \in D : k \in KeysOf(list[i])
    BY <1>3, GraphNodes
  <2>2. k = MachineKey(list[i])
    BY <1>3, <2>1, KeyShapes DEF RowList
  <2> QED BY <2>2
<1>4. f \in Surjection(D, M)
  BY <1>2, <1>3 DEF Surjection
<1>5. Unambiguous(list) => f \in Injection(D, M)
  <2>1. ASSUME Unambiguous(list), NEW i \in D, NEW j \in D, f[i] = f[j]
        PROVE  i = j
    <3>1. MachineKey(list[i]) \in KeysOf(list[i]) \cap KeysOf(list[j])
      BY <1>1, <2>1
    <3> QED BY <2>1, <3>1 DEF Unambiguous
  <2> QED BY <1>2, <2>1 DEF Injection, IsInjective
<1>6. IsFiniteSet(D)
  BY DEF RowList
<1> HIDE DEF D, M, f
<1>7. Cardinality(M) <= Cardinality(D) /\ (f \in Injection(D, M) => Cardinality(M) = Cardinality(D))
  BY <1>4, <1>6, FS_Surjection
<1> QED BY <1>5, <1>7 DEF D, M

(* The links of a list, each with its row.                                 *)
LinksIn(list) ==
  {e \in (DOMAIN list) \X UNION {row.links : row \in Rows} : e[2] \in list[e[1]].links}

LEMMA LinksAreFinite ==
  ASSUME NEW list, RowList(list)
  PROVE  IsFiniteSet(LinksIn(list))
<1> DEFINE D == DOMAIN list
           L == {list[i].links : i \in D}
           g == [i \in D |-> list[i].links]
<1>1. g \in Surjection(D, L)
  BY DEF Surjection
<1>2. IsFiniteSet(L)
  BY <1>1, FS_Surjection DEF RowList
<1>3. \A links \in L : IsFiniteSet(links)
  BY RowsAssumption DEF RowList
<1>4. IsFiniteSet(D \X UNION L)
  <2>1. IsFiniteSet(UNION L)
    BY <1>2, <1>3, FS_UNION
  <2>2. IsFiniteSet(D)
    BY DEF RowList
  <2> HIDE DEF D, L
  <2> QED BY <2>1, <2>2, FS_Product
<1>5. LinksIn(list) \subseteq D \X UNION L
  BY DEF LinksIn
<1> HIDE DEF D, L
<1> QED BY <1>4, <1>5, FS_Subset

LEMMA PeersCounted ==
  ASSUME NEW list, RowList(list)
  PROVE  LET drawnPeers == {k \in DOMAIN buildGraph(list) : k[1] = "p"}
         IN  /\ Cardinality(drawnPeers) <= Cardinality(LinksIn(list))
             /\ Unambiguous(list) => Cardinality(drawnPeers) = Cardinality(LinksIn(list))
<1> DEFINE E == LinksIn(list)
           P == {k \in DOMAIN buildGraph(list) : k[1] = "p"}
           f == [e \in E |-> <<"p", e[2][1], e[2][2]>>]
<1>1. ASSUME NEW e \in E
      PROVE  /\ e[1] \in DOMAIN list /\ list[e[1]] \in Rows /\ e = <<e[1], e[2]>>
             /\ e[2] \in list[e[1]].links /\ e[2] = <<e[2][1], e[2][2]>>
             /\ f[e] \in KeysOf(list[e[1]]) /\ f[e][1] = "p"
  <2>1. e[1] \in DOMAIN list /\ e[2] \in list[e[1]].links /\ e = <<e[1], e[2]>>
    BY DEF LinksIn
  <2>2. list[e[1]] \in Rows
    BY <2>1 DEF RowList
  <2>3. e[2] = <<e[2][1], e[2][2]>>
    BY <2>1, <2>2, RowsAssumption
  <2>4. f[e] = <<"p", e[2][1], e[2][2]>>
    OBVIOUS
  <2>5. f[e] \in PeerKeys(list[e[1]])
    BY <2>1, <2>4 DEF PeerKeys
  <2> QED BY <2>1, <2>2, <2>3, <2>4, <2>5 DEF KeysOf
<1>2. f \in [E -> P]
  <2>1. \A e \in E : f[e] \in P
    BY <1>1, GraphNodes
  <2> QED BY <2>1
<1>3. ASSUME NEW k \in P PROVE \E e \in E : f[e] = k
  <2>1. PICK i \in DOMAIN list : k \in KeysOf(list[i])
    BY <1>3, GraphNodes
  <2>2. list[i] \in Rows
    BY <2>1 DEF RowList
  <2>3. <<k[2], k[3]>> \in list[i].links /\ k = <<"p", k[2], k[3]>>
    BY <1>3, <2>1, <2>2, KeyShapes
  <2> DEFINE e == <<i, <<k[2], k[3]>>>>
  <2>4. e \in E
    BY <2>1, <2>2, <2>3 DEF LinksIn
  <2>5. f[e] = k
    BY <2>3, <2>4
  <2> QED BY <2>4, <2>5
<1>4. f \in Surjection(E, P)
  BY <1>2, <1>3 DEF Surjection
<1>5. ASSUME Unambiguous(list), NEW d \in E, NEW e \in E, f[d] = f[e]
      PROVE  d = e
  <2>1. f[d] \in KeysOf(list[d[1]]) \cap KeysOf(list[e[1]])
    BY <1>1, <1>5
  <2>2. d[1] = e[1]
    BY <1>1, <1>5, <2>1 DEF Unambiguous
  <2>3. f[d] = <<"p", d[2][1], d[2][2]>> /\ f[e] = <<"p", e[2][1], e[2][2]>>
    OBVIOUS
  <2>4. d[2][1] = e[2][1] /\ d[2][2] = e[2][2]
    BY <1>5, <2>3
  <2>5. d[2] = <<d[2][1], d[2][2]>> /\ e[2] = <<e[2][1], e[2][2]>>
    BY <1>1
  <2>6. <<d[2][1], d[2][2]>> = <<e[2][1], e[2][2]>>
    BY <2>4
  <2>7. d[2] = e[2]
    BY <2>5, <2>6, Zenon
  <2> QED BY <1>1, <2>2, <2>7
<1>6. Unambiguous(list) => f \in Injection(E, P)
  BY <1>2, <1>5 DEF Injection, IsInjective
<1>7. IsFiniteSet(E)
  BY LinksAreFinite
<1> HIDE DEF E, P, f
<1>8. Cardinality(P) <= Cardinality(E) /\ (f \in Injection(E, P) => Cardinality(P) = Cardinality(E))
  BY <1>4, <1>7, FS_Surjection
<1> QED BY <1>6, <1>8 DEF E, P

-----------------------------------------------------------------------------
(* Unless an effect is pending, the nodes are those of the searched list;  *)
(* the graph's selection is always App's.                                  *)
ViewInv ==
  /\ machines \in Lists /\ search \in Searches
  /\ ~pending => nodes = buildGraph(filtered(machines, search))
  /\ selection = selectedKey

LEMMA ViewInit == Init => ViewInv
<1> SUFFICES ASSUME Init PROVE ViewInv
  OBVIOUS
<1>1. filtered(<<>>, Rows) = <<>>
  BY DEF filtered
<1> QED BY <1>1, ListsAssumption, SearchesAssumption DEF Init, ViewInv

LEMMA ViewStep == ViewInv /\ [Next]_vars => ViewInv'
<1> SUFFICES ASSUME ViewInv, [Next]_vars PROVE ViewInv'
  OBVIOUS
<1>1. CASE UNCHANGED <<app, nodes, selection>>
  BY <1>1 DEF ViewInv, app
<1>2. ASSUME NEW list \in Lists, Refresh(list) PROVE ViewInv'
  BY <1>2 DEF ViewInv, Refresh
<1>3. CASE machinesEffect
  BY <1>3 DEF ViewInv, machinesEffect, Rebuild
<1>4. ASSUME NEW q \in Searches, SetSearch(q) PROVE ViewInv'
  BY <1>4 DEF ViewInv, SetSearch, Rebuild
<1>5. ASSUME NEW key, SetSelectedKey(key) PROVE ViewInv'
  BY <1>5 DEF ViewInv, SetSelectedKey
<1>6. CASE SelectRow \/ SelectNode \/ FilterChange
  BY <1>5, <1>6 DEF SelectRow, SelectNode, FilterChange
<1>7. CASE UNCHANGED vars
  BY <1>1, <1>7 DEF vars, app
<1>8. ASSUME NEW p \in Pointers,
             \/ \E k \in Keys : NodePointerDown(p, k)
             \/ onPointerDown(p) \/ onPointerUp(p) \/ ReleaseElsewhere(p)
      PROVE  ViewInv'
  BY <1>1, <1>8 DEF NodePointerDown, onPointerDown, onPointerUp, ReleaseElsewhere
<1>9. CASE onPointerMove \/ onWheel \/ applyZoom \/ resetView \/ frame
  BY <1>1, <1>9 DEF onPointerMove, onWheel, applyZoom, resetView, frame
<1> QED BY <1>2, <1>3, <1>4, <1>6, <1>7, <1>8, <1>9 DEF Next

LEMMA ViewAgrees == ViewInv => PanelAgreesWithGraph
<1>1. SUFFICES ASSUME ViewInv, ~pending
               PROVE  PanelAgreesWithGraph
  BY DEF PanelAgreesWithGraph
<1> DEFINE list == filtered(machines, search)
<1>2. /\ machines \in Lists /\ search \in Searches /\ nodes = buildGraph(list)
      /\ selection = selectedKey /\ RowList(machines) /\ RowList(list)
  BY <1>1, ListsAreRowLists, Filtering DEF ViewInv
<1>3. /\ DOMAIN list \subseteq DOMAIN machines
      /\ \A i \in DOMAIN list : list[i] = machines[i]
      /\ search = Rows => DOMAIN list = DOMAIN machines
  BY <1>2, Filtering
<1> HIDE DEF list
<1>4. ASSUME NEW k \in DOMAIN nodes
      PROVE  /\ resolveSelection(k, machines) # None
             /\ search = Rows \/ Unambiguous(machines) =>
                  resolveSelection(k, machines) = nodes[k]
  <2>1. k \in Keys
    BY <1>2, <1>4, GraphNodes
  <2>2. PICK i \in DOMAIN list : FirstWith(list, k, i) /\ nodes[k] = list[i]
    BY <1>2, <1>4, GraphNodes
  <2>3. i \in DOMAIN machines /\ k \in KeysOf(machines[i]) /\ nodes[k] = machines[i]
    BY <1>3, <2>2 DEF FirstWith
  <2>4. PICK j \in DOMAIN machines : FirstWith(machines, k, j)
    BY <1>2, <2>3, FirstExists
  <2>5. resolveSelection(k, machines) = machines[j] /\ machines[j] \in Rows
    BY <1>2, <2>1, <2>4, Resolves DEF RowList
  <2>6. CASE search = Rows
    <3>1. i <= j /\ j <= i /\ i \in Nat /\ j \in Nat
      BY <1>2, <1>3, <2>2, <2>3, <2>4, <2>6 DEF FirstWith, RowList
    <3>2. i = j
      BY <3>1
    <3> QED BY <2>3, <2>5, <3>2, NoneAssumption
  <2>7. CASE Unambiguous(machines)
    <3>1. i = j
      BY <2>3, <2>4, <2>7 DEF FirstWith, Unambiguous
    <3> QED BY <2>3, <2>5, <3>1, NoneAssumption
  <2> QED BY <2>5, <2>6, <2>7, NoneAssumption
<1>5. \A e \in Edges(nodes) : e[1] \in DOMAIN nodes
  <2>1. ASSUME NEW k \in DOMAIN nodes PROVE MachineKey(nodes[k]) \in DOMAIN nodes
    <3>1. PICK i \in DOMAIN list : nodes[k] = list[i]
      BY <1>2, <2>1, GraphNodes
    <3>2. MachineKey(list[i]) \in KeysOf(list[i])
      BY DEF KeysOf
    <3> QED BY <1>2, <3>1, <3>2, GraphNodes
  <2> QED BY <2>1 DEF Edges
<1>6. selectedKey \in DOMAIN nodes =>
        /\ DetailsPanel.type = IF selectedKey[1] = "m" THEN "machine" ELSE "peer"
        /\ selection = selectedKey
  BY <1>2, <1>4 DEF DetailsPanel, selected
<1>7. LET drawnMachines == Cardinality({k \in DOMAIN nodes : k[1] = "m"})
          drawnPeers == Cardinality({k \in DOMAIN nodes : k[1] = "p"})
      IN  /\ StatCards(list).machines >= drawnMachines
          /\ StatCards(list).peers >= drawnPeers
          /\ Unambiguous(list) => StatCards(list) =
               [machines |-> drawnMachines, peers |-> drawnPeers]
  <2> DEFINE m == Cardinality({k \in DOMAIN nodes : k[1] = "m"})
             p == Cardinality({k \in DOMAIN nodes : k[1] = "p"})
  <2>1. StatCards(list) = [machines |-> Cardinality(DOMAIN list), peers |-> Cardinality(LinksIn(list))]
    BY DEF StatCards, LinksIn
  <2>2. /\ m <= Cardinality(DOMAIN list)
        /\ Unambiguous(list) => m = Cardinality(DOMAIN list)
    BY <1>2, MachinesCounted
  <2>3. /\ p <= Cardinality(LinksIn(list))
        /\ Unambiguous(list) => p = Cardinality(LinksIn(list))
    BY <1>2, PeersCounted
  <2> HIDE DEF m, p
  <2>4. /\ StatCards(list).machines >= m /\ StatCards(list).peers >= p
        /\ Unambiguous(list) => StatCards(list) = [machines |-> m, peers |-> p]
    BY <2>1, <2>2, <2>3
  <2> QED BY <2>4 DEF m, p
<1> QED BY <1>4, <1>5, <1>6, <1>7 DEF PanelAgreesWithGraph, list

(* For every list, also one that has a machine or a peer twice, and every  *)
(* search: buildGraph, resolveSelection and the cards agree on what a node *)
(* is, once the effect of the last rendering has run (App.jsx, utils.js,   *)
(* TopologyGraph.jsx).                                                     *)
THEOREM PanelAgrees == Spec => []PanelAgreesWithGraph
BY ViewInit, ViewStep, ViewAgrees, PTL DEF Spec

-----------------------------------------------------------------------------
(* Liveness.                                                               *)

(* The browser can always call a frame, and one that draws changes what    *)
(* dirty is; a pending effect can run. The prover does not compute         *)
(* ENABLED: this is a hypothesis of the next theorem.                      *)
BrowserCanStep ==
  /\ dirty => ENABLED <<frame>>_vars
  /\ pending => ENABLED <<machinesEffect>>_vars

UpToDate ==
  /\ ~dirty
  /\ drawn = buildGraph(filtered(machines, search))
  /\ selection = selectedKey

(* Once the user and the server are quiet, the picture becomes that of the *)
(* list received and the selection made, and stays it. Settles also says   *)
(* that alpha reaches zero, which takes an induction over its steps.       *)
PictureSettles == <>[][frame \/ machinesEffect]_vars => <>[]UpToDate

(* What a frame and the effect do to the picture when nothing else comes.  *)
LEMMA QuietStep ==
  ASSUME ViewInv, [frame \/ machinesEffect]_vars
  PROVE  /\ pending' => pending
         /\ ~pending /\ ~dirty => ~dirty'
         /\ ~pending => (frame => ~dirty')
         /\ machinesEffect => ~pending'
<1>1. CASE frame
  BY <1>1 DEF ViewInv, frame, render, app, machinesEffect
<1>2. CASE machinesEffect
  BY <1>2 DEF machinesEffect, frame, app
<1>3. CASE UNCHANGED vars
  BY <1>3 DEF vars, machinesEffect, frame, app
<1> QED BY <1>1, <1>2, <1>3

(* Every response that was received and every text that was typed reaches  *)
(* the canvas (TopologyGraph.jsx: the effects, requestAnimationFrame).     *)
THEOREM PictureIsDrawn == Spec /\ []BrowserCanStep => PictureSettles
<1>1. ViewInv /\ IInv /\ ~pending /\ ~dirty => UpToDate
  BY DEF ViewInv, IInv, PaintIsUpToDate, UpToDate
<1>2. /\ ViewInv /\ ~pending /\ [frame \/ machinesEffect]_vars => ~pending'
      /\ ViewInv /\ ~pending /\ ~dirty /\ [frame \/ machinesEffect]_vars => ~dirty'
      /\ ViewInv /\ ~pending /\ <<frame>>_vars => ~dirty'
      /\ ViewInv /\ <<machinesEffect>>_vars => ~pending'
  BY QuietStep
<1>3. Spec => []ViewInv /\ []IInv
  BY ViewInit, ViewStep, Invariance, PTL DEF Spec
<1>4. Spec => WF_vars(frame) /\ WF_vars(machinesEffect)
  BY PTL DEF Spec, Fairness
<1>5. Spec /\ []BrowserCanStep =>
        (<>[][frame \/ machinesEffect]_vars => <>[](~pending))
  BY <1>2, <1>3, <1>4, PTL DEF BrowserCanStep
<1>6. Spec /\ []BrowserCanStep =>
        (<>([][frame \/ machinesEffect]_vars /\ [](~pending)) => <>[](~pending /\ ~dirty))
  BY <1>2, <1>3, <1>4, PTL DEF BrowserCanStep
<1> QED BY <1>1, <1>3, <1>5, <1>6, PTL DEF PictureSettles
=============================================================================
