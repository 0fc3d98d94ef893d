CONSTANTS
  Items = {i1, i2}
  Kinds = {"files", "listeners", "processes"}
  Capacity = 1
  Batch = 1
  MaxGeneration = 3
SPECIFICATION Spec
CHECK_DEADLOCK FALSE
PROPERTIES
  CommitFollowsQueue
