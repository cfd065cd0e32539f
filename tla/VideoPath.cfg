\* MaxFailures is max_consecutive_capture_failures of main().
SPECIFICATION PathSpec
CONSTANTS
  MaxFailures = 3
  Gop = 2
  Room = 2
  Backlog = 2
INVARIANTS PathTypeOK FramesAccounted NoLostWakeup StopIsPrompt SentIsUsed
PROPERTIES ShutdownCompletes InferenceGoesOn FeedSpec VideoGoesOn
