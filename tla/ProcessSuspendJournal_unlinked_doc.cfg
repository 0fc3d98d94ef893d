CONSTANTS
  SuspendActions = {s1}
  Procs = {p1, p2}
  NoProc = NoProc
  NoAction = NoAction
  TTL = 1
SPECIFICATION FairSpec
PROPERTIES
  Released
