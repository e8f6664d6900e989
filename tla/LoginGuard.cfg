CONSTANTS
  Clients = {a, b}
  burst = 2
  refill = 2
  limiterSweepAfter = 4
  maxTrackedClients = 1
  ttl = 3
  second = 2
  KeyConfigured = FALSE
  MaxNow = 8
  MaxRestarts = 1
  None = None
SPECIFICATION Spec
INVARIANTS FailuresAreBounded SessionLifetime
