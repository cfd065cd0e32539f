\* One acknowledgement that takes longer than the writer's busy timeout.
SPECIFICATION Spec
CONSTANTS
  Batch = 2
  ReplayHistory = FALSE
  MaxEvents = 2
  MaxFailures = 1
INVARIANT LossesAreLocal
