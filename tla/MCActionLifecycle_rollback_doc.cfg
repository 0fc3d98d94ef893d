CONSTANTS
  r1 = r1
  NoAction = NoAction
  NoSource = NoSource
  ResultIds <- ResultSet
  Actions = {a1}
  Cmds = {c1, c2}
  Sources = {s1}
  Kinds <- AdminKinds
  Submissions <- AdminResults
  DraftTTL = 1
  CommandTTL = 1
  ExecutionTimeout = 1
  ConfirmMax = 1
  BanTTL = 2
  ClaimLease = 1
  MaxUnfinished = 1
SPECIFICATION Spec
PROPERTIES
  RollbackEndsAsDocumented
