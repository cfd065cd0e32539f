\* The door thread writes back a stale low-light flag.
SPECIFICATION FairSpec
CONSTANTS
  Readers = {}
  RawSamples = {36, 60}
  LowThreshold = 30
  RecoverThreshold = 50
  SeqModulus = 2
  AllowInject = FALSE
  MaxPwmFaults = 0
INVARIANT LowLuxOwnedBySensor
