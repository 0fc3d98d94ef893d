CONSTANTS
  Nobody = Nobody
  SensorKey = SensorKey
  CapacityKey = CapacityKey
  Incidents = {i1, i2}
  Signals = {s1, s2}
  Keys = {k1}
  Investigations = {v1}
  Steps = {p1}
  Actions = {a1}
  MaxActive = 2
  MaxClosed = 1
  ListLimit = 1
SPECIFICATION Spec
SYMMETRY Symmetry
CHECK_DEADLOCK FALSE
INVARIANTS
  ResultsAreRecorded
