\* Alarm flags and outputs: no process has the device open.
SPECIFICATION FairSpec
CONSTANTS
  Readers = {}
  RawSamples = {36, 37, 60}
  LowThreshold = 30
  RecoverThreshold = 50
  SeqModulus = 2
  AllowInject = FALSE
  MaxPwmFaults = 1
INVARIANTS TypeOK OutputsAreTheMerge
PROPERTIES LightAlarmSettles OutputsRecover
