CONSTANTS
  Collections = {1, 2, 3}
  Machines = {1, 2}
  Instances = {i}
  Peers = {}
  Metrics = {x}
  None = None
  Snapshots <- ActivitySnapshots
SPECIFICATION Spec
PROPERTIES StaleNeverOverwrites
