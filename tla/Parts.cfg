SPECIFICATION Spec
CONSTANTS
  BanActions = {"b0", "b1", "b2"}
  Legacy = {"b0"}
  Unnamed = "unnamed"
  NoBan = "none"
  TTLs = {2}
  Lag = 1
  BanJump = 1
  SSHActions = {"h1", "h2"}
  Lines = {"t1"}
  Modes = {"m1", "m2"}
  Nobody = "nobody"
  Window = 1
  MaxDelay = 1
  Retry = 1
  Jump = 1
  SuspendActions = {"z1", "z2"}
  Procs = {"p1"}
  NoProc = "free"
  NoAction = "nobody"
  TTL = 1
  Events = {"e1", "e2"}
  Reports = {"e1", "e2"}
  Workers = {"w1", "w2"}
  NoEvent = "none"
  MaxLive = 1
  MaxDone = 1
  MaxAttempts = 2
  Lease = 1
  SendRetry = 1
  MaxVersion = 2
  MaxFaults = 1
  Categories = {"c1", "c2"}
  Grave = {"c1"}
  Names = {"n1"}
  MaxReports = 2
  MaxActive = 1
  MaxResolved = 1
  MaxScans = 3
  Installers = {"g1", "g2"}
  Keys = {"k1", "k2"}
  Tokens = {"t1"}
  Challenges = {"c1", "c2"}
  Creds = {"x1", "x2"}
  NoOne = "none"
  MaxUses = 1
  PerKey = 1
  PerToken = 2
  Items = {"i1", "i2"}
  Kinds = {"files", "listeners", "processes"}
  Capacity = 1
  Batch = 1
  MaxGeneration = 3
  Sources = {"s1", "s2"}
  Allowed = {}
  Protected = {}
  Windows = {1, 2}
  Threshold = 2
  MaxSamples = 2
  MaxRows = 1
  BanTime = 1
  Hour = 2
  CoolMax = 1
  MaxBans = 1
  MaxSims = 1
  MaxLiveSims = 1
  Ahead = 1
  MaxEvents = 3
  MaxTime = 3
  MaxSaves = 1
CHECK_DEADLOCK FALSE
INVARIANTS
  BansAreExact
  UndoArmed
  ResumeArmed
  OutboxSafe
  ProjectionIsLastWord
  EnrolmentIsSound
  CountIsOfTheWindow
  LimitsAreKept
PROPERTIES
  RollbackRestores
  UndoIsExact
  ChangesAreTold
