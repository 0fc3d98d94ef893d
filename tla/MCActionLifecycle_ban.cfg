CONSTANTS
  r1 = r1
  NoAction = NoAction
  NoSource = NoSource
  ResultIds <- ResultSet
  Actions = {a1, a2}
  Cmds = {c1, c2, c3}
  Sources = {s1}
  Kinds <- BanKinds
  Submissions <- BanResults
  DraftTTL = 1
  CommandTTL = 1
  ExecutionTimeout = 1
  ConfirmMax = 1
  BanTTL = 2
  ClaimLease = 1
  MaxUnfinished = 2
SPECIFICATION Spec
SYMMETRY Symmetry
INVARIANTS
  BansFollowActions
  StopWithdrawsBans
PROPERTIES
  HorizonOnlyExtendedByStart
