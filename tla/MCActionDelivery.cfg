CONSTANTS
  NoAction = NoAction
  NoSource = NoSource
  ResultIds = {r1}
  Actions = {a1}
  Cmds = {c1, c2}
  Sources = {}
  Kinds <- PlainKinds
  Submissions <- NoSubmissions
  DraftTTL = 1
  CommandTTL = 1
  ExecutionTimeout = 2
  ConfirmMax = 1
  BanTTL = 1
  ClaimLease = 1
  MaxUnfinished = 1
  MaxQueue = 1
SYMMETRY Interchangeable
SPECIFICATION DeliverySpec
INVARIANTS
  SuccessIsReal
  HostIsSafe
PROPERTIES
  NoQueuedResultLost
