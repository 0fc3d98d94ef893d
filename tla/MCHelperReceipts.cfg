CONSTANTS
  a1 = a1
  a2 = a2
  a3 = a3
  Attempts = {a1, a2, a3}
  ResultIds = {r1}
  Jobs <- MixedJobs
  MaxItems = 2
SPECIFICATION Spec
CHECK_DEADLOCK FALSE
INVARIANTS
  ReplayIsSafe
PROPERTIES
  AnswersAreTruthful
  KeepsPromise
