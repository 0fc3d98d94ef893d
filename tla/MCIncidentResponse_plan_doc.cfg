CONSTANTS
  Nobody = Nobody
  SensorKey = SensorKey
  CapacityKey = CapacityKey
  Incidents = {i1}
  Signals = {s1}
  Keys = {k1}
  Investigations = {v1}
  Steps = {p1, p2}
  Actions = {a1, a2}
  MaxActive = 2
  MaxClosed = 0
  ListLimit = 1
SPECIFICATION Spec
SYMMETRY Symmetry
CHECK_DEADLOCK FALSE
INVARIANTS
  ExecutingPlanIsAtWork
