\* The event slot: two processes poll and read the device.
\* An unbound driver with constant light has no step left.
CHECK_DEADLOCK FALSE
SPECIFICATION FairSpec
CONSTANTS
  r1 = r1
  r2 = r2
  Readers = {r1, r2}
  RawSamples = {36}
  LowThreshold = 30
  RecoverThreshold = 50
  SeqModulus = 3
  AllowInject = TRUE
  MaxPwmFaults = 0
INVARIANTS SomeReaderAwake
PROPERTIES NoRecordReadTwice UnreadIsTaken
