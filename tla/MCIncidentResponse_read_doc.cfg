CONSTANTS
  Nobody = Nobody
  SensorKey = SensorKey
  CapacityKey = CapacityKey
  Incidents = {i1}
  Signals = {s1, s2}
  Keys = {k1}
  Investigations = {v1}
  Steps = {}
  Actions = {}
  MaxActive = 2
  MaxClosed = 1
  ListLimit = 1
SPECIFICATION Spec
SYMMETRY Symmetry
CHECK_DEADLOCK FALSE
INVARIANTS
  MonitoringIsRead
