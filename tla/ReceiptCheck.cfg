CONSTANTS
  ResultIds = {r1}
SPECIFICATION Spec
CHECK_DEADLOCK FALSE
INVARIANTS
  ReceiptSafety
PROPERTIES
  DelayNeverProves
