CONSTANTS
  Rows <- MCRows
  Lists <- MCLists
  Searches <- MCSearches
  Pointers = {p1, p2}
  AlphaSteps = 2
  None = None
SPECIFICATION Spec
INVARIANTS PaintIsUpToDate NoGhostDrag DragHoldsItsNode PanelAgreesWithGraph
PROPERTIES Settles
