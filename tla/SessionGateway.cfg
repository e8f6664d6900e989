CONSTANTS
  Sessions = {s1, s2, s3}
  Machines = {m1, m2}
  AdmissionRequired = TRUE
  None = None
SPECIFICATION Spec
INVARIANTS PooledSessionsAreIdentified NoOrphanSession
PROPERTIES LiveSessionOnlyReplaced DeadSessionsLeave ReplacedSessionsStop
CHECK_DEADLOCK FALSE
