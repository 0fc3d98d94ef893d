CONSTANTS
  Nobody = Nobody
  SensorKey = SensorKey
  CapacityKey = CapacityKey
  Incidents = {i1, i2}
  Signals = {s1, s2}
  Keys = {k1}
  Investigations = {v1, v2}
  Steps = {}
  Actions = {}
  MaxActive = 1
  MaxClosed = 0
  ListLimit = 1
SPECIFICATION Spec
SYMMETRY Symmetry
CHECK_DEADLOCK FALSE
INVARIANTS
  InvestigatingHasLease
PROPERTIES
  OpenedWithinLimit
  ClosedReopens
