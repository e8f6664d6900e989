CONSTANTS
  Machines = {m1, m2}
  Clients = {k1, k2}
  machine_concurrency = 1
  snapshot_ttl = 1
  MaxCollections = 2
  MaxNow = 2
  None = None
SPECIFICATION Spec
INVARIANTS CollectionsAreDisjoint AnswersAreFresh ErrorFreeMeansComplete
PROPERTIES AnswersNeverRegress EveryCallReturns
CHECK_DEADLOCK FALSE
