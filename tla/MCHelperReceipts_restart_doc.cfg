CONSTANTS
  a1 = a1
  a2 = a2
  a3 = a3
  Attempts = {a1}
  ResultIds = {r1}
  Jobs <- OneJob
  MaxItems = 2
SPECIFICATION FairSpec
CHECK_DEADLOCK FALSE
PROPERTIES
  HelperReturns
