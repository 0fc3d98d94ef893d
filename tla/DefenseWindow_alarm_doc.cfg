CONSTANTS
  Sources = {"s1", "s2", "s3"}
  Allowed = {}
  Protected = {}
  Windows = {1, 2}
  Threshold = 2
  MaxSamples = 2
  MaxRows = 2
  BanTime = 1
  Hour = 2
  CoolMax = 1
  MaxBans = 1
  MaxSims = 1
  MaxLiveSims = 1
  Ahead = 1
  MaxEvents = 3
  MaxTime = 3
  MaxSaves = 1
SPECIFICATION Spec
CHECK_DEADLOCK FALSE
INVARIANTS
  AlarmMeansFull
