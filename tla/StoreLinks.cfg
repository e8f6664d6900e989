CONSTANTS
  Collections = {1, 2, 3}
  Machines = {1}
  Instances = {i}
  Peers = {p, q}
  Metrics = {}
  None = None
  Snapshots <- LinkSnapshots
SPECIFICATION Spec
 
PROPERTIES ErrorsNeverErase DetailsSurviveFailure
