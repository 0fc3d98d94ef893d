CONSTANTS
  Nobody = Nobody
  SensorKey = SensorKey
  CapacityKey = CapacityKey
  Incidents = {i1}
  Signals = {s1, s2}
  Keys = {k1}
  Investigations = {v1, v2}
  Steps = {}
  Actions = {}
  MaxActive = 2
  MaxClosed = 2
  ListLimit = 2
SPECIFICATION FairSpec
CHECK_DEADLOCK FALSE
PROPERTIES
  IncidentsMove
