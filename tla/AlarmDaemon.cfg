SPECIFICATION Spec
CONSTANTS
  NearHold = 1
  NobodyHold = 2
  Stale = 1
  Commands = {"ai on", "rear enable", "rear disable", "rear status", "rear calibrate"}
  MaxFrames = 1
  MaxFaults = 1
  MaxCrashes = 1
  MaxLosses = 1
INVARIANTS MergeDelivered MonitorExcludesCalibration RecordedSuccessWasCompared
PROPERTIES RadarAlarmEarned RadarReleaseEarned
