CONSTANTS
  ClearAfter = 3
  MaxPipe = 3
  MaxRefusals = 2
  MaxCrashes = 2
SPECIFICATION FairSpec
INVARIANTS TypeOK
PROPERTIES FollowsDetector EndWithdraws RecoversFromCrash
\* All the processes may come to an end.
CHECK_DEADLOCK FALSE
