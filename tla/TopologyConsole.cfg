CONSTANTS
  Machines = {1, 2, 3}
  PageLimit = 2
  Filters = {"", "true"}
  Requests = {r1, r2}
  InitialTables <- MCInitialTables
  Snapshots <- MCSnapshots
  MaxCollections = 2
  MaxPages = 3
  None = None
SPECIFICATION Spec
INVARIANTS PagingIsExact HeaderIsNeverAhead
PROPERTIES LoadingEnds FilterPrevails
