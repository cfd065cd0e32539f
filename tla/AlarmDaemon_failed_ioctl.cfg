SPECIFICATION FairSpec
CONSTANTS
  NearHold = 1
  NobodyHold = 1
  Stale = 1
  Commands = {"ai on", "ai off"}
  MaxFrames = 1
  MaxFaults = 1
  MaxCrashes = 0
  MaxLosses = 0
PROPERTIES ActiveSourceSounds
