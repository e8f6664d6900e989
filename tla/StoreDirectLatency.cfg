CONSTANTS
  Collections = {1, 2, 3}
  Machines = {1, 2}
  Instances = {i}
  Peers = {p}
  Metrics = {x}
  None = None
  Snapshots <- LinkSnapshots
SPECIFICATION InOrderSpec
INVARIANTS DirectLatencyIsRtt
