---------------------------- MODULE TopologyView ----------------------------
(***************************************************************************)
(* What the console does with the list it holds: App derives the searched  *)
(* rows and the selected record, DetailsPanel shows it, and TopologyGraph  *)
(* lays the rows out and draws them from an animation loop of its own.     *)
(*                                                                         *)
(* The graph's state lives outside React, in node objects that the drawn   *)
(* elements' listeners and a drag refer to. A rebuild replaces all of      *)
(* them: `live` says whether the drawn elements refer to the current ones, *)
(* and `attached` whether a drag does. Coordinates are not represented,    *)
(* only whether something visible changed since the last drawing.          *)
(***************************************************************************)
EXTENDS Naturals, Sequences, FiniteSets

CONSTANTS
  Rows,        \* machine records: [machine_id, links, metrics]
  Lists,       \* the lists the hook may hand over: sequences of rows
  Searches,    \* search texts, each the set of the rows that contain it
  Pointers,    \* mouse, touches and pens
  AlphaSteps,  \* ticks until alpha has decayed below ALPHA_MIN
  None

ASSUME ListsAssumption == Lists \subseteq Seq(Rows) /\ <<>> \in Lists
ASSUME SearchesAssumption == Searches \subseteq SUBSET Rows /\ Rows \in Searches
ASSUME AlphaAssumption == AlphaSteps \in Nat \ {0}

(* links of a row are the pairs of an instance and a peer it lists. A node *)
(* key is <<"m", machine>> or <<"p", instance, peer>>.                     *)
MachineKey(row) == <<"m", row.machine_id>>
PeerKeys(row) == {<<"p", l[1], l[2]>> : l \in row.links}
KeysOf(row) == {MachineKey(row)} \cup PeerKeys(row)

Keys == UNION {KeysOf(row) : row \in Rows}

ASSUME RowsAssumption ==
  \A row \in Rows :
    IsFiniteSet(row.links) /\ \A l \in row.links : l = <<l[1], l[2]>>
ASSUME NoneAssumption == None \notin Rows /\ None \notin Keys

VARIABLES
  machines,     \* the list received
  search,       \* the rows that contain the search text
  selectedKey,  \* App's selection
  pending,      \* the machines effect has yet to run for the new list
  nodes,        \* the graph's nodes, each with the row it stands for
  selection,    \* the graph's copy of the selection
  fixed,        \* the nodes that the simulation must not move
  dragging,     \* the drag, see Drag
  panning,      \* the background is being dragged
  down,         \* the pointers pressed on the canvas
  captured,     \* those whose events go to the canvas wherever they are
  alpha,        \* ticks left before the simulation stands still
  dirty,        \* a drawing is asked for
  drawn,        \* the nodes as last drawn
  live,         \* the drawn elements refer to the current node objects
  unpainted     \* history: what changed visibly since the last drawing

vars == <<machines, search, selectedKey, pending, nodes, selection, fixed, dragging,
          panning, down, captured, alpha, dirty, drawn, live, unpainted>>

app == <<machines, search, selectedKey, pending>>

pointers == <<down, captured>>

Drag == [key : Keys, attached : BOOLEAN, moved : BOOLEAN]

-----------------------------------------------------------------------------
(* Pure parts.                                                             *)

(* The rows that match, each at the place it had: what follows only uses   *)
(* which rows there are and in which order.                                *)
filtered(list, q) == [i \in {i \in DOMAIN list : list[i] \in q} |-> list[i]]

(* The keys already seen when the loop comes to row i.                     *)
Seen(list, i) == UNION {KeysOf(list[j]) : j \in {j \in DOMAIN list : j < i}}

(* A key becomes a node at the first row that has it.                      *)
buildGraph(list) ==
  [k \in UNION {KeysOf(list[i]) : i \in DOMAIN list} |->
     LET i == CHOOSE i \in DOMAIN list : k \in KeysOf(list[i]) \ Seen(list, i)
     IN  list[i]]

(* Edges run from the machine of the row that introduced a peer.           *)
Edges(graph) == {<<MachineKey(graph[k]), k>> : k \in {k \in DOMAIN graph : k[1] = "p"}}

(* Mutant: the last row that the key names.                                *)
resolveSelectionLast(key, list) ==
  IF key = None THEN None ELSE
  LET found == {i \in DOMAIN list :
                  IF key[1] = "m" THEN list[i].machine_id = key[2]
                  ELSE <<key[2], key[3]>> \in list[i].links}
  IN  IF found = {} THEN None
      ELSE list[CHOOSE i \in found : \A j \in found : i >= j]

(* The first row, in the order of the list, that the key names.            *)
resolveSelection(key, list) ==
  IF key = None THEN None ELSE
  LET found == {i \in DOMAIN list :
                  IF key[1] = "m" THEN list[i].machine_id = key[2]
                  ELSE <<key[2], key[3]>> \in list[i].links}
  IN  IF found = {} THEN None
      ELSE list[CHOOSE i \in found : \A j \in found : i <= j]

(* What the cards above the graph count.                                   *)
StatCards(list) ==
  [machines |-> Cardinality(DOMAIN list),
   peers |-> Cardinality({e \in (DOMAIN list) \X UNION {row.links : row \in Rows} :
                            e[2] \in list[e[1]].links})]

selected == resolveSelection(selectedKey, machines)

(* What the panel shows: the latest collection, a machine or a peer.       *)
DetailsPanel ==
  IF selected = None THEN [type |-> "collection", row |-> None]
  ELSE [type |-> IF selectedKey[1] = "m" THEN "machine" ELSE "peer", row |-> selected]

TypeOK ==
  /\ machines \in Lists /\ search \in Searches
  /\ selectedKey \in Keys \cup {None} /\ selection \in Keys \cup {None}
  /\ DOMAIN nodes \subseteq Keys /\ DOMAIN drawn \subseteq Keys
  /\ \A k \in DOMAIN nodes : nodes[k] \in Rows
  /\ fixed \subseteq DOMAIN nodes
  /\ dragging \in Drag \cup {None}
  /\ down \subseteq Pointers /\ captured \subseteq down
  /\ alpha \in 0 .. AlphaSteps
  /\ pending \in BOOLEAN /\ panning \in BOOLEAN /\ dirty \in BOOLEAN /\ live \in BOOLEAN
  /\ unpainted \subseteq {"nodes", "selection", "position", "view"}

Init ==
  /\ machines = <<>> /\ search = Rows /\ selectedKey = None /\ pending = FALSE
  /\ nodes = buildGraph(<<>>) /\ selection = None /\ fixed = {}
  /\ dragging = None /\ panning = FALSE /\ down = {} /\ captured = {}
  /\ alpha = AlphaSteps /\ dirty = TRUE
  /\ drawn = nodes /\ live = TRUE /\ unpainted = {}

-----------------------------------------------------------------------------
(* React: new props, and the effects that carry them into the graph.       *)

reheat == alpha' = AlphaSteps

Touch(what) ==
  /\ dirty' = TRUE
  /\ unpainted' = unpainted \cup what

(* Another number of nodes, or one that is new.                            *)
topologyChanged(graph) ==
  \/ Cardinality(DOMAIN graph) # Cardinality(DOMAIN nodes)
  \/ \E k \in DOMAIN graph : k \notin DOMAIN nodes

(* Mutant: fixed is copied with the coordinates.                           *)
RebuildCopyingFixed(list) ==
  LET graph == buildGraph(list) IN
  /\ nodes' = graph
  /\ IF topologyChanged(graph) THEN reheat ELSE UNCHANGED alpha
  /\ fixed' = fixed \cap DOMAIN graph
  /\ dragging' = IF dragging = None THEN None ELSE [dragging EXCEPT !.attached = FALSE]
  /\ live' = FALSE
  /\ Touch({"nodes"})

(* The machines effect. The new node objects are not fixed, and a drag     *)
(* goes on with the object it holds, which is no longer a node.            *)
Rebuild(list) ==
  LET graph == buildGraph(list) IN
  /\ nodes' = graph
  /\ IF topologyChanged(graph) THEN reheat ELSE UNCHANGED alpha
  /\ fixed' = {}
  /\ dragging' = IF dragging = None THEN None ELSE [dragging EXCEPT !.attached = FALSE]
  /\ live' = FALSE
  /\ Touch({"nodes"})

(* A response is rendered. Its effect runs later, but before the next      *)
(* rendering: frames and pointer events may come in between.               *)
Refresh(list) ==
  /\ ~pending
  /\ machines' = list
  /\ pending' = TRUE
  /\ UNCHANGED <<search, selectedKey, nodes, selection, fixed, dragging, panning,
                 pointers, alpha, dirty, drawn, live, unpainted>>

machinesEffect ==
  /\ pending
  /\ pending' = FALSE
  /\ Rebuild(filtered(machines, search))
  /\ UNCHANGED <<machines, search, selectedKey, selection, panning, pointers, drawn>>

(* Typing flushes the effects of its own rendering. Another text may match *)
(* the same rows: the graph is rebuilt all the same.                       *)
SetSearch(q) ==
  /\ ~pending
  /\ search' = q
  /\ Rebuild(filtered(machines, q))
  /\ UNCHANGED <<machines, selectedKey, pending, selection, panning, pointers, drawn>>

(* The selection changes, with the graph's selection effect.               *)
SetSelectedKey(key) ==
  /\ ~pending
  /\ key # selectedKey
  /\ selectedKey' = key
  /\ selection' = key
  /\ Touch({"selection"})
  /\ UNCHANGED <<machines, search, pending, nodes, fixed, dragging, panning, pointers,
                 alpha, drawn, live>>

(* A row of the table is clicked.                                          *)
SelectRow ==
  \E i \in DOMAIN filtered(machines, search) :
    SetSelectedKey(MachineKey(filtered(machines, search)[i]))

(* A drawn node is clicked, or chosen from the keyboard.                   *)
SelectNode == \E k \in DOMAIN drawn : SetSelectedKey(k)

(* Choosing a filter clears the selection; the list comes with the         *)
(* response (TopologyConsole).                                             *)
FilterChange == SetSelectedKey(None)

-----------------------------------------------------------------------------
(* Pointer and wheel listeners.                                            *)

(* Mutant: the pressed node does not capture the pointer.                  *)
NodePointerDownUncaptured(p, k) ==
  /\ p \notin down
  /\ k \in DOMAIN drawn
  /\ down' = down \cup {p}
  /\ fixed' = IF live THEN fixed \cup {k} ELSE fixed
  /\ dragging' = [key |-> k, attached |-> live, moved |-> FALSE]
  /\ UNCHANGED <<app, nodes, selection, panning, captured, alpha, dirty, drawn, live,
                 unpainted>>

(* A drawn node is pressed: its listener has the node object it was drawn  *)
(* from. The background's listener does not see the event.                 *)
NodePointerDown(p, k) ==
  /\ p \notin down
  /\ k \in DOMAIN drawn
  /\ down' = down \cup {p}
  /\ captured' = captured \cup {p}
  /\ fixed' = IF live THEN fixed \cup {k} ELSE fixed
  /\ dragging' = [key |-> k, attached |-> live, moved |-> FALSE]
  /\ UNCHANGED <<app, nodes, selection, panning, alpha, dirty, drawn, live, unpainted>>

(* The background is pressed. During a drag the handler returns, before it *)
(* captures the pointer.                                                   *)
onPointerDown(p) ==
  /\ p \notin down
  /\ down' = down \cup {p}
  /\ IF dragging = None
     THEN panning' = TRUE /\ captured' = captured \cup {p}
     ELSE UNCHANGED <<panning, captured>>
  /\ UNCHANGED <<app, nodes, selection, fixed, dragging, alpha, dirty, drawn, live, unpainted>>

(* Mutant: a pan asks for no drawing.                                      *)
onPointerMoveUnpainted ==
  /\ dragging # None \/ panning
  /\ dragging' = IF dragging = None THEN None ELSE [dragging EXCEPT !.moved = TRUE]
  /\ dirty' = (dirty \/ dragging # None)
  /\ unpainted' = unpainted \cup
       (IF dragging = None THEN {"view"}
        ELSE IF dragging.attached THEN {"position"} ELSE {})
  /\ UNCHANGED <<app, nodes, selection, fixed, panning, pointers, alpha, drawn, live>>

(* Any pointer's move goes to the drag, whichever pointer began it.        *)
onPointerMove ==
  /\ dragging # None \/ panning
  /\ dragging' = IF dragging = None THEN None ELSE [dragging EXCEPT !.moved = TRUE]
  /\ Touch(IF dragging = None THEN {"view"}
           ELSE IF dragging.attached THEN {"position"} ELSE {})
  /\ UNCHANGED <<app, nodes, selection, fixed, panning, pointers, alpha, drawn, live>>

(* A pointer is released over the canvas or cancelled: whatever is going   *)
(* on ends, also when that pointer was pressed outside the canvas.         *)
onPointerUp(p) ==
  /\ down' = down \ {p}
  /\ captured' = captured \ {p}
  /\ panning' = FALSE
  /\ dragging' = None
  /\ fixed' = IF dragging # None /\ dragging.attached THEN fixed \ {dragging.key} ELSE fixed
  /\ IF dragging # None /\ dragging.moved THEN reheat ELSE UNCHANGED alpha
  /\ UNCHANGED <<app, nodes, selection, dirty, drawn, live, unpainted>>

(* A pointer that is not captured may be released where the canvas does    *)
(* not see it.                                                             *)
ReleaseElsewhere(p) ==
  /\ p \in down \ captured
  /\ down' = down \ {p}
  /\ UNCHANGED <<app, nodes, selection, fixed, dragging, panning, captured, alpha, dirty,
                 drawn, live, unpainted>>

(* The zoom buttons, and the wheel.                                        *)
applyZoom ==
  /\ Touch({"view"})
  /\ UNCHANGED <<app, nodes, selection, fixed, dragging, panning, pointers, alpha, drawn, live>>

onWheel == applyZoom

resetView ==
  /\ Touch({"view"})
  /\ reheat
  /\ UNCHANGED <<app, nodes, selection, fixed, dragging, panning, pointers, drawn, live>>

-----------------------------------------------------------------------------
(* The animation loop.                                                     *)

render ==
  /\ drawn' = nodes
  /\ live' = TRUE
  /\ unpainted' = {}

(* Mutant: alpha decays only while something moves.                        *)
tickWhileMoving(shifts) ==
  /\ shifts => alpha > 0 /\ DOMAIN nodes \ fixed # {}
  /\ alpha' = IF shifts THEN alpha - 1 ELSE alpha

(* One tick: alpha decays until the simulation stands still. The largest   *)
(* shift is above SETTLE_EPSILON or not; it is zero once alpha has         *)
(* decayed, or when every node is fixed.                                   *)
tick(shifts) ==
  /\ shifts => alpha > 0 /\ DOMAIN nodes \ fixed # {}
  /\ alpha' = IF alpha = 0 THEN 0 ELSE alpha - 1

frame ==
  /\ \E shifts \in BOOLEAN :
       /\ tick(shifts)
       /\ IF shifts \/ dirty THEN dirty' = FALSE /\ render
          ELSE UNCHANGED <<dirty, drawn, live, unpainted>>
  /\ UNCHANGED <<app, nodes, selection, fixed, dragging, panning, pointers>>

Next ==
  \/ \E list \in Lists : Refresh(list)
  \/ machinesEffect
  \/ \E q \in Searches : SetSearch(q)
  \/ SelectRow \/ SelectNode \/ FilterChange
  \/ \E p \in Pointers :
       \/ \E k \in Keys : NodePointerDown(p, k)
       \/ onPointerDown(p) \/ onPointerUp(p) \/ ReleaseElsewhere(p)
  \/ onPointerMove
  \/ onWheel \/ applyZoom \/ resetView
  \/ frame

(* The browser keeps calling frames and React runs a pending effect; no    *)
(* user has to do anything and no response has to come.                    *)
Fairness == WF_vars(frame) /\ WF_vars(machinesEffect)

Spec == Init /\ [][Next]_vars /\ Fairness

-----------------------------------------------------------------------------
(* Without a drawing asked for, the picture is the state: nodes with their *)
(* rows, selection ring, dragged positions, zoom and pan. Every handler    *)
(* that changes what is visible has to ask for a drawing.                  *)
PaintIsUpToDate == ~dirty => unpainted = {} /\ drawn = nodes

(* With all pointers up nothing is being dragged or panned, whichever      *)
(* pointers pressed what, in which order and where they were released.     *)
NoGhostDrag == down = {} => dragging = None /\ ~panning

(* A drag holds a node of the graph still, and its release lets go of it.  *)
(* One whose node objects a rebuild replaced holds nothing, whatever was   *)
(* pressed, drawn or rebuilt since it began: its release frees an object   *)
(* that is no longer a node, so what was still fixed would stay so.        *)
DragHoldsItsNode ==
  dragging # None =>
    IF dragging.attached THEN dragging.key \in fixed \cap DOMAIN nodes ELSE fixed = {}

(* No machine and no peer is listed by two rows.                           *)
Unambiguous(list) ==
  \A i, j \in DOMAIN list : i # j => KeysOf(list[i]) \cap KeysOf(list[j]) = {}

(* The graph, the panel and the edges agree on which record a key means,   *)
(* also when overlapping requests left a machine or a peer in the list     *)
(* twice; with a search they may differ on such a key, but every node      *)
(* still has a record to show. The cards count what is drawn, and count a  *)
(* machine or peer that is listed twice twice.                             *)
PanelAgreesWithGraph ==
  ~pending =>
    /\ \A k \in DOMAIN nodes :
         /\ resolveSelection(k, machines) # None
         /\ search = Rows \/ Unambiguous(machines) =>
              resolveSelection(k, machines) = nodes[k]
    /\ \A e \in Edges(nodes) : e[1] \in DOMAIN nodes
    /\ selectedKey \in DOMAIN nodes =>
         /\ DetailsPanel.type = IF selectedKey[1] = "m" THEN "machine" ELSE "peer"
         /\ selection = selectedKey
    /\ LET list == filtered(machines, search)
           drawnMachines == Cardinality({k \in DOMAIN nodes : k[1] = "m"})
           drawnPeers == Cardinality({k \in DOMAIN nodes : k[1] = "p"})
       IN  /\ StatCards(list).machines >= drawnMachines
           /\ StatCards(list).peers >= drawnPeers
           /\ Unambiguous(list) => StatCards(list) =
                [machines |-> drawnMachines, peers |-> drawnPeers]

(* Once the user and the server are quiet, the picture shows the list      *)
(* received and the selection made, and drawing ends: alpha decays "so     *)
(* that repainting stops after the layout has converged".                  *)
Settles ==
  <>[][frame \/ machinesEffect]_vars =>
    <>[](/\ alpha = 0 /\ ~dirty
         /\ drawn = buildGraph(filtered(machines, search))
         /\ selection = selectedKey)

=============================================================================
