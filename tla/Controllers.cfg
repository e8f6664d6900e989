CONSTANTS
  c1 = c1
  c2 = c2
  Controllers = {c1, c2}
  Serving = {c1}
  Machines = {1, 2}
  Histories <- MCHistories
  Builds <- MCBuilds
  Altering = {2}
  None = None
SPECIFICATION Spec
INVARIANTS MigrationsHappenOnce CommittedOnce NewestObservationWins InactiveIsExplained StatusIsHonest ExitIsClean
CHECK_DEADLOCK FALSE
PROPERTIES NeverStuck
