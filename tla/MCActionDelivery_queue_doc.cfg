CONSTANTS
  NoAction = NoAction
  NoSource = NoSource
  ResultIds = {r1}
  Actions = {a1}
  Cmds = {c1}
  Sources = {}
  Kinds <- PlainKinds
  Submissions <- NoSubmissions
  DraftTTL = 1
  CommandTTL = 1
  ExecutionTimeout = 2
  ConfirmMax = 1
  BanTTL = 1
  ClaimLease = 1
  MaxUnfinished = 1
  MaxQueue = 2
SPECIFICATION DeliverySpec
INVARIANTS
  HeadCanLeave
