\* A stopped reporter and no further event leave nothing to do.
CHECK_DEADLOCK FALSE
SPECIFICATION PresenceSpec
CONSTANTS
  Batch = 2
  ReplayHistory = FALSE
  MaxEvents = 3
  MaxFailures = 1
INVARIANTS PresenceTypeOK RepeatsHaveCause
PROPERTIES ReportsInOrder EventuallyReported PresenceIsTold
