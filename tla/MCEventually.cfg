SPECIFICATION PartsSpec
CHECK_DEADLOCK FALSE
PROPERTIES
  LockoutEnds
  ReleasedUnlessUnlinked
  DeliveriesSettle
  SchedulesAreKept
  ScansRun
  EnrolmentIsNotLost
  LinesAreReportedOnce
